---- MODULE Spec2Model ----
(***************************************************************************)
(* A model of the scatter renderer: the BxDF/BSDF scattering terms, the    *)
(* Whitted and path-traced integrators, the renderer, the scene-file       *)
(* parser and the threaded column dispatch of render().                    *)
(*                                                                         *)
(* Scalars (f64) are modelled as exact rationals <<n, d>> in lowest terms, *)
(* d > 0; d = 0 encodes the IEEE specials: <<1,0>> = +inf, <<-1,0>> =      *)
(* -inf, <<0,0>> = NaN.  Vectors and spectra are triples of scalars.       *)
(* Directions are kept in the local shading frame of the BSDF (the normal  *)
(* is +Z), so dot(w, N) is the z component of w.                           *)
(***************************************************************************)
EXTENDS Integers, Sequences, FiniteSets, TLC

VARIABLES
    call,            \* pure functions: the function applied, its arguments, its result
    pdepth,          \* PathTraced.depth
    nlights,         \* scene.lights.len()
    ppc,             \* position in PathTraced::integrate / path_bounce
    bounce,          \* path_bounce: the bounce parameter
    tp_in,           \* path_bounce: the throughput parameter
    throughput,      \* path_bounce: the local `mut throughput`
    l,               \* path_bounce: the local l
    direct,          \* path_bounce: what sample_one_light returned at this vertex
    specular_bounce, \* path_bounce: the specular_bounce flag
    isect,           \* path_bounce: the intersection (its BSDF terms and local wo)
    samp,            \* path_bounce: what bsdf.sample_f returned
    pfault,          \* the panic that ended the path, or "none"
    ray,             \* path_bounce: the ray parameter (its depth field)
    roulette_draw,   \* path_bounce: what rng.next_f64() returned for the roulette
    wdepth,          \* Whitted.depth / StandardRenderer.depth
    wnlights,        \* scene.lights.len() of the Whitted scene
    frames,          \* the live calls of renderer.render, the innermost last
    wpc,             \* "idle", "running" or "done"
    wresult,         \* what the outermost renderer.render returned
    width,           \* render: the image width
    height,          \* render: the image height
    nthreads,        \* render: the number of worker threads
    cpc,             \* render: the position of the coordinating thread
    nspawned,        \* render: the loop variable i of the spawning loop
    workers,         \* per worker: its column range, its position, its sender clone
    chan,            \* the mpsc channel: the pixels sent and not yet received
    coord_tx,        \* whether the coordinator still holds its sender tx
    pixel_map,       \* render: the keys of pixel_map
    samples_per_pixel, \* render: the samples per pixel
    shared,          \* the camera, scene and renderer behind the Arcs
    rngs,            \* per worker: the draws made from its generators
    doc,             \* parse_scene: the scene description, field by field
    parse_pc,        \* parse_scene: the step it is at
    outcome          \* parse_scene: running, Ok, Err(error) or a panic

pureVars == <<call>>
pathVars == <<pdepth, nlights, ppc, bounce, tp_in, throughput, l, direct,
              specular_bounce, isect, samp, pfault, ray, roulette_draw>>
whittedVars == <<wdepth, wnlights, frames, wpc, wresult>>
renderVars == <<width, height, nthreads, cpc, nspawned, workers, chan, coord_tx, pixel_map,
                samples_per_pixel, shared, rngs>>
parseVars == <<doc, parse_pc, outcome>>
vars == <<call, pdepth, nlights, ppc, bounce, tp_in, throughput, l, direct,
          specular_bounce, isect, samp, pfault, ray, roulette_draw,
          wdepth, wnlights, frames, wpc, wresult,
          width, height, nthreads, cpc, nspawned, workers, chan, coord_tx, pixel_map,
          samples_per_pixel, shared, rngs,
          doc, parse_pc, outcome>>

\* No pure function has been applied.
PureIdle == call = [op |-> "none", args |-> <<>>, result |-> <<>>]

(***************************************************************************)
(* Bounds of the model.                                                    *)
(***************************************************************************)
MaxTerms == 2
MaxDepth == 5
MaxBounce == 6
MaxLights == 1

(***************************************************************************)
(* f64 arithmetic (math.rs: Scalar).                                       *)
(***************************************************************************)
Abs(x) == IF x < 0 THEN -x ELSE x

Sign(x) == IF x < 0 THEN -1 ELSE IF x > 0 THEN 1 ELSE 0

RECURSIVE GCD(_, _)
GCD(a, b) == IF b = 0 THEN a ELSE GCD(b, a % b)

Rat(n, d) ==
    IF d = 0 THEN <<Sign(n), 0>>
    ELSE LET g == GCD(Abs(n), Abs(d))
             s == IF d < 0 THEN -1 ELSE 1
         IN <<(s * n) \div g, (s * d) \div g>>

R(n) == <<n, 1>>
RNaN == <<0, 0>>
RIsNaN(a) == a = RNaN
RIsInf(a) == a[2] = 0 /\ a[1] # 0
RIsZero(a) == a[2] # 0 /\ a[1] = 0

RNeg(a) == <<-a[1], a[2]>>

RAbs(a) == <<Abs(a[1]), a[2]>>

RAdd(a, b) ==
    IF RIsNaN(a) \/ RIsNaN(b) THEN RNaN
    ELSE IF RIsInf(a) THEN (IF RIsInf(b) /\ b # a THEN RNaN ELSE a)
    ELSE IF RIsInf(b) THEN b
    ELSE LET g == GCD(a[2], b[2])
         IN Rat(a[1] * (b[2] \div g) + b[1] * (a[2] \div g), (a[2] \div g) * b[2])

RSub(a, b) == RAdd(a, RNeg(b))

RMul(a, b) ==
    IF RIsNaN(a) \/ RIsNaN(b) THEN RNaN
    ELSE IF RIsInf(a) \/ RIsInf(b)
         THEN (IF RIsZero(a) \/ RIsZero(b) THEN RNaN
               ELSE <<Sign(a[1]) * Sign(b[1]), 0>>)
    ELSE LET g1 == GCD(Abs(a[1]), b[2])
             g2 == GCD(Abs(b[1]), a[2])
         IN Rat((a[1] \div g1) * (b[1] \div g2), (a[2] \div g2) * (b[2] \div g1))

RInv(a) ==
    IF RIsNaN(a) THEN RNaN
    ELSE IF RIsInf(a) THEN R(0)
    ELSE IF RIsZero(a) THEN <<1, 0>>
    ELSE Rat(a[2], a[1])

RDiv(a, b) == RMul(a, RInv(b))

\* IEEE comparisons: every comparison with NaN is false.
RLt(a, b) ==
    /\ ~RIsNaN(a) /\ ~RIsNaN(b) /\ a # b
    /\ IF a[2] = 0 /\ b[2] = 0 THEN a[1] < b[1] ELSE a[1] * b[2] < b[1] * a[2]
RGt(a, b) == RLt(b, a)
REq(a, b) == ~RIsNaN(a) /\ a = b
RLe(a, b) == RLt(a, b) \/ REq(a, b)

\* f64::min / f64::max return the other operand when one is NaN.
RMin(a, b) == IF RIsNaN(a) THEN b ELSE IF RIsNaN(b) THEN a ELSE IF RLt(b, a) THEN b ELSE a
RMax(a, b) == IF RIsNaN(a) THEN b ELSE IF RIsNaN(b) THEN a ELSE IF RLt(a, b) THEN b ELSE a

RECURSIVE ISqrtFrom(_, _)
ISqrtFrom(n, k) == IF (k + 1) * (k + 1) > n THEN k ELSE ISqrtFrom(n, k + 1)

\* The integer part of the square root of n >= 0.
ISqrt(n) == ISqrtFrom(n, 0)

IsSquare(n) == ISqrt(n) * ISqrt(n) = n

\* f64::sqrt: exact on squares of rationals, otherwise rounded down to a
\* multiple of 1/10; NaN below zero.
RSqrt(a) ==
    IF RIsNaN(a) \/ a[1] < 0 THEN RNaN
    ELSE IF RIsInf(a) THEN a
    ELSE IF IsSquare(a[1]) /\ IsSquare(a[2]) THEN Rat(ISqrt(a[1]), ISqrt(a[2]))
    ELSE Rat(ISqrt((a[1] * 100) \div a[2]), 10)

\* Mutant of clamp: values above max pass.
clamp_below_only(x, min, max) == IF RLt(x, min) THEN min ELSE x

\* Clamp for Scalar, past its assertion.
clamp(x, min, max) == IF RLt(x, min) THEN min ELSE IF RGt(x, max) THEN max ELSE x

(***************************************************************************)
(* Vectors and spectra (math.rs: Vector; Spectrum is the same triple).     *)
(***************************************************************************)
Vec(x, y, z) == <<x, y, z>>
VZero == <<R(0), R(0), R(0)>>
VOne == <<R(1), R(1), R(1)>>
VAdd(a, b) == [i \in 1..3 |-> RAdd(a[i], b[i])]
VSub(a, b) == [i \in 1..3 |-> RSub(a[i], b[i])]
VMul(a, b) == [i \in 1..3 |-> RMul(a[i], b[i])]
VDivC(a, b) == [i \in 1..3 |-> RDiv(a[i], b[i])]
VScale(a, s) == [i \in 1..3 |-> RMul(a[i], s)]
VDivS(a, s) == [i \in 1..3 |-> RDiv(a[i], s)]
VDot(a, b) == RAdd(RAdd(RMul(a[1], b[1]), RMul(a[2], b[2])), RMul(a[3], b[3]))
\* `v == na::zero()`: component-wise IEEE equality.
VIsZero(a) == \A i \in 1..3 : RIsZero(a[i])

(***************************************************************************)
(* BxDFType (bxdf.rs: bitflags).                                           *)
(***************************************************************************)
BSDF_REFLECTION == 1
BSDF_TRANSMISSION == 2
BSDF_DIFFUSE == 4
BSDF_GLOSSY == 8
BSDF_SPECULAR == 16

RECURSIVE BitAnd(_, _)
BitAnd(a, b) ==
    IF a = 0 \/ b = 0 THEN 0
    ELSE (a % 2) * (b % 2) + 2 * BitAnd(a \div 2, b \div 2)

BitOr(a, b) == a + b - BitAnd(a, b)

\* bitflags `a - b`: the bits of a that are not in b.
BitSub(a, b) == a - BitAnd(a, b)

\* bitflags `a.intersects(b)`
Intersects(a, b) == BitAnd(a, b) # 0

BSDF_ALL_TYPES == BitOr(BSDF_DIFFUSE, BitOr(BSDF_GLOSSY, BSDF_SPECULAR))
BSDF_ALL_REFLECTION == BitOr(BSDF_REFLECTION, BSDF_ALL_TYPES)
BSDF_ALL_TRANSMISSION == BitOr(BSDF_TRANSMISSION, BSDF_ALL_TYPES)
BSDF_ALL == BitOr(BSDF_ALL_REFLECTION, BSDF_ALL_TRANSMISSION)

BxDFTypes == 0..BSDF_ALL

(***************************************************************************)
(* Geometry helpers of bxdf.rs, in the local frame.                        *)
(***************************************************************************)
cos_theta(v) == v[3]

sin_theta2(v) == RMax(R(0), RSub(R(1), RMul(cos_theta(v), cos_theta(v))))

same_hemisphere(w, wp) == RGt(RMul(w[3], wp[3]), R(0))

\* consts::FRAC_1_PI, to the precision of the rational 7/22.
FRAC_1_PI == Rat(7, 22)

(***************************************************************************)
(* BxDF terms.  A term is a record with a kind and the fields of its       *)
(* struct.                                                                 *)
(***************************************************************************)
Lambertian(colour) == [kind |-> "Lambertian", colour |-> colour]

FresnelConductor(eta, k) == [kind |-> "Conductor", eta |-> eta, k |-> k]

FresnelDielectric(etai, etat) == [kind |-> "Dielectric", etai |-> etai, etat |-> etat]

SpecularReflection(r, fresnel) ==
    [kind |-> "SpecularReflection", r |-> r, fresnel |-> fresnel]

SpecularTransmission(t, etai, etat) ==
    [kind |-> "SpecularTransmission", t |-> t, etai |-> etai, etat |-> etat,
     fresnel |-> FresnelDielectric(etai, etat)]

bxdf_type(bxdf) ==
    CASE bxdf.kind = "Lambertian" -> BitOr(BSDF_DIFFUSE, BSDF_REFLECTION)
      [] bxdf.kind = "SpecularReflection" -> BitOr(BSDF_REFLECTION, BSDF_SPECULAR)
      [] bxdf.kind = "SpecularTransmission" -> BitOr(BSDF_TRANSMISSION, BSDF_SPECULAR)

\* Mutant of matches_flags: the any-overlap test of an earlier snapshot.
matches_flags_overlap(own_type, flags) == BitAnd(own_type, flags) # 0

\* BxDF::matches_flags, on the term's own type bits.
matches_flags(own_type, flags) == BitAnd(own_type, flags) = own_type

\* BxDF::f of each term.
bxdf_f(bxdf, wo, wi) ==
    CASE bxdf.kind = "Lambertian" -> VScale(bxdf.colour, FRAC_1_PI)
      [] bxdf.kind = "SpecularReflection" -> VZero
      [] bxdf.kind = "SpecularTransmission" -> VZero

RECURSIVE SumF(_, _, _, _)
SumF(bxdfs, sel, a, b) ==
    IF sel = <<>> THEN VZero
    ELSE VAdd(SumF(bxdfs, SubSeq(sel, 1, Len(sel) - 1), a, b),
              bxdf_f(bxdfs[sel[Len(sel)]], a, b))

\* The indices, in list order, of the terms of bxdfs that match flags.
RECURSIVE Matching(_, _)
Matching(bxdfs, flags) ==
    IF bxdfs = <<>> THEN <<>>
    ELSE LET n == Len(bxdfs)
             rest == Matching(SubSeq(bxdfs, 1, n - 1), flags)
         IN IF matches_flags(bxdf_type(bxdfs[n]), flags) THEN Append(rest, n) ELSE rest

\* Mutant of HemisphereFlags: the two branches exchanged.
HemisphereFlagsSwapped(wo, wi, flags) ==
    IF RGt(RMul(wo[3], wi[3]), R(0))
    THEN BitSub(flags, BSDF_REFLECTION)
    ELSE BitSub(flags, BSDF_TRANSMISSION)

\* The flags BSDF::f and BSDF::sample_f keep for a pair of directions.
HemisphereFlags(wo, wi, flags) ==
    IF RGt(RMul(wo[3], wi[3]), R(0))
    THEN BitSub(flags, BSDF_TRANSMISSION)
    ELSE BitSub(flags, BSDF_REFLECTION)

\* The terms BSDF::f sums over.
BSDF_f_terms(bxdfs, wo, wi, flags) == Matching(bxdfs, HemisphereFlags(wo, wi, flags))

\* BSDF::f (each term is called as bxdf.f(&wi, &wo)).
BSDF_f(bxdfs, wo, wi, flags) == SumF(bxdfs, BSDF_f_terms(bxdfs, wo, wi, flags), wi, wo)

(***************************************************************************)
(* Colours and the terms the materials build.                              *)
(***************************************************************************)
White == <<R(1), R(1), R(1)>>
Red == <<R(1), R(0), R(0)>>
Blue == <<R(0), R(0), R(1)>>
Palette == {White, Red, Blue}

\* The terms the materials build (material.rs).
MirrorTerm == SpecularReflection(White, FresnelConductor(VZero, White))
GlassReflTerm == SpecularReflection(White, FresnelDielectric(R(1), Rat(3, 2)))
GlassTransTerm == SpecularTransmission(White, R(1), Rat(3, 2))
(***************************************************************************)
(* Fresnel reflectance (bxdf.rs).                                          *)
(***************************************************************************)
VFrom(x) == [i \in 1..3 |-> x]

\* Mutant of fr_diel: the sum of the two squares is not halved.
fr_diel_unhalved(cosi, cost, etai, etat) ==
    VAdd(VMul(VDivC(VSub(VScale(etat, cosi), VScale(etai, cost)),
                    VAdd(VScale(etat, cosi), VScale(etai, cost))),
              VDivC(VSub(VScale(etat, cosi), VScale(etai, cost)),
                    VAdd(VScale(etat, cosi), VScale(etai, cost)))),
         VMul(VDivC(VSub(VScale(etai, cosi), VScale(etat, cost)),
                    VAdd(VScale(etai, cosi), VScale(etat, cost))),
              VDivC(VSub(VScale(etai, cosi), VScale(etat, cost)),
                    VAdd(VScale(etai, cosi), VScale(etat, cost)))))

fr_diel(cosi, cost, etai, etat) ==
    LET rparl == VDivC(VSub(VScale(etat, cosi), VScale(etai, cost)),
                       VAdd(VScale(etat, cosi), VScale(etai, cost)))
        rperp == VDivC(VSub(VScale(etai, cosi), VScale(etat, cost)),
                       VAdd(VScale(etai, cosi), VScale(etat, cost)))
    IN VDivS(VAdd(VMul(rparl, rparl), VMul(rperp, rperp)), R(2))

fr_cond(cosi, eta, k) ==
    LET cosi_sq == RMul(cosi, cosi)
        tmp == VScale(VAdd(VMul(eta, eta), VMul(k, k)), cosi_sq)
        two_eta_cosi == VScale(VScale(eta, R(2)), cosi)
        rparl2 == VDivC(VAdd(VSub(tmp, two_eta_cosi), VFrom(R(1))),
                        VAdd(VAdd(tmp, two_eta_cosi), VFrom(R(1))))
        tmp_f == VAdd(VMul(eta, eta), VMul(k, k))
        rperp2 == VDivC(VAdd(VSub(tmp_f, two_eta_cosi), VFrom(cosi_sq)),
                        VAdd(VAdd(tmp_f, two_eta_cosi), VFrom(cosi_sq)))
    IN VDivS(VAdd(rparl2, rperp2), R(2))

FresnelDielectric_evaluate(fr, cosi0) ==
    LET cosi == clamp(cosi0, R(-1), R(1))
        entering == RGt(cosi, R(0))
        etai == IF entering THEN fr.etai ELSE fr.etat
        etat == IF entering THEN fr.etat ELSE fr.etai
        sint == RMul(RDiv(etai, etat),
                     RSqrt(RMax(R(0), RSub(R(1), RMul(cosi, cosi)))))
    IN IF RGt(sint, R(1)) THEN VOne
       ELSE LET cost == RSqrt(RMax(R(0), RSub(R(1), RMul(sint, sint))))
            IN fr_diel(RAbs(cosi), cost, VFrom(etai), VFrom(etat))

Fresnel_evaluate(fr, cosi) ==
    IF fr.kind = "Conductor" THEN fr_cond(RAbs(cosi), fr.eta, fr.k)
    ELSE FresnelDielectric_evaluate(fr, cosi)

(***************************************************************************)
(* Sampling of the terms.  h stands for cosine_sample_hemisphere(u1, u2):  *)
(* a unit vector of the upper hemisphere (z >= 0) drawn by the caller.     *)
(***************************************************************************)
\* BxDF::pdf: the cosine-weighted default, and 0.0 for the specular terms.
bxdf_pdf(bxdf, wo, wi) ==
    IF bxdf.kind = "Lambertian"
    THEN (IF same_hemisphere(wo, wi) THEN RMul(RAbs(cos_theta(wi)), FRAC_1_PI) ELSE R(0))
    ELSE R(0)

\* cosine_sample_hemisphere (montecarlo.rs), from the point (x, y) that
\* concentric_sample_disc returns.
cosine_sample_hemisphere(x, y) ==
    Vec(x, y, RSqrt(RMax(R(0), RSub(RSub(R(1), RMul(x, x)), RMul(y, y)))))

\* BxDF::sample_f, the default of the trait (used by Lambertian).
default_sample_f(bxdf, wo, h) ==
    LET wi == IF RLt(wo[3], R(0)) THEN Vec(h[1], h[2], RMul(h[3], R(-1))) ELSE h
    IN [f |-> bxdf_f(bxdf, wo, wi), wi |-> wi, pdf |-> bxdf_pdf(bxdf, wo, wi)]

SpecularReflection_sample_f(bxdf, wo) ==
    LET wi == Vec(RNeg(wo[1]), RNeg(wo[2]), wo[3])
        refl == VDivS(VMul(Fresnel_evaluate(bxdf.fresnel, cos_theta(wo)), bxdf.r),
                      RAbs(cos_theta(wi)))
    IN [f |-> refl, wi |-> wi, pdf |-> R(1)]

\* Mutant of entering: the indices of refraction are never swapped.
entering_always(wo) == TRUE

\* SpecularTransmission::sample_f: `let entering = cos_theta(wo) > 0.0;`.
entering(wo) == RGt(cos_theta(wo), R(0))

SpecularTransmission_sample_f(bxdf, wo) ==
    LET etai == IF entering(wo) THEN bxdf.etai ELSE bxdf.etat
        etat == IF entering(wo) THEN bxdf.etat ELSE bxdf.etai
        sini2 == sin_theta2(wo)
        eta == RDiv(etai, etat)
        sint2 == RMul(RMul(eta, eta), sini2)
    IN IF RGt(sint2, R(1)) THEN [f |-> VZero, wi |-> VZero, pdf |-> R(0)]
       ELSE LET cost == IF entering(wo) THEN RNeg(RMax(R(0), RSub(R(1), sint2)))
                        ELSE RMax(R(0), RSub(R(1), sint2))
                wi == Vec(RMul(eta, RNeg(wo[1])), RMul(eta, RNeg(wo[2])), cost)
                f == Fresnel_evaluate(bxdf.fresnel, cos_theta(wo))
                transmitted == VDivS(VMul(VSub(VOne, f), bxdf.t), RAbs(cos_theta(wi)))
            IN [f |-> transmitted, wi |-> wi, pdf |-> R(1)]

bxdf_sample_f(bxdf, wo, h) ==
    CASE bxdf.kind = "Lambertian" -> default_sample_f(bxdf, wo, h)
      [] bxdf.kind = "SpecularReflection" -> SpecularReflection_sample_f(bxdf, wo)
      [] bxdf.kind = "SpecularTransmission" -> SpecularTransmission_sample_f(bxdf, wo)

RECURSIVE SumPdf(_, _, _, _)
SumPdf(bxdfs, sel, wo, wi) ==
    IF sel = <<>> THEN R(0)
    ELSE RAdd(SumPdf(bxdfs, SubSeq(sel, 1, Len(sel) - 1), wo, wi),
              bxdf_pdf(bxdfs[sel[Len(sel)]], wo, wi))

NoType == [some |-> FALSE, bits |-> 0]
SomeType(t) == [some |-> TRUE, bits |-> t]

\* Mutant of overall_pdf: the pdf of a specular term is not shared out
\* among the matching terms.
overall_pdf_specular_whole(bxdfs, matching, wo, s, specular) ==
    IF Len(matching) > 1 /\ ~specular
    THEN RDiv(SumPdf(bxdfs, matching, wo, s.wi), R(Len(matching)))
    ELSE s.pdf

\* BSDF::sample_f, the pdf over all the matching terms: s is what the chosen
\* term sampled and specular whether that term is specular.
overall_pdf(bxdfs, matching, wo, s, specular) ==
    IF Len(matching) > 1
    THEN RDiv(IF ~specular THEN SumPdf(bxdfs, matching, wo, s.wi) ELSE s.pdf,
              R(Len(matching)))
    ELSE s.pdf

\* Mutant of sampled_colour: the sum runs over every matching term, without
\* the hemisphere mask.
sampled_colour_unmasked(bxdfs, wo, s, specular, flags) ==
    IF ~specular
    THEN SumF(bxdfs, Matching(bxdfs, flags), wo, s.wi)
    ELSE s.f

\* BSDF::sample_f, the value of the BSDF in the sampled direction.
sampled_colour(bxdfs, wo, s, specular, flags) ==
    IF ~specular
    THEN SumF(bxdfs, Matching(bxdfs, HemisphereFlags(s.wi, wo, flags)), wo, s.wi)
    ELSE s.f

\* BSDF::sample_f, the `Some(bxdf)` arm: bt is the type of the chosen term.
sample_chosen(bxdfs, matching, wo, flags, bt, s) ==
    [f |-> sampled_colour(bxdfs, wo, s, Intersects(bt, BSDF_SPECULAR), flags),
     wi |-> s.wi,
     pdf |-> overall_pdf(bxdfs, matching, wo, s, Intersects(bt, BSDF_SPECULAR)),
     flags |-> SomeType(bt)]

\* The number of indices rng.choose can pick among n matching terms.
Choices(n) == 1..(IF n = 0 THEN 1 ELSE n)

\* Mutant of NoSample: a white value with pdf 1 and no type.
NoSampleWhite == [f |-> VOne, wi |-> Vec(R(0), R(0), R(1)), pdf |-> R(1), flags |-> NoType]

\* BSDF::sample_f, the None arm: (na::zero(), na::zero(), 0.0, None).
NoSample == [f |-> VZero, wi |-> VZero, pdf |-> R(0), flags |-> NoType]

\* BSDF::sample_f.  choice is the index rng.choose picks among the matching
\* terms (ignored when none matches).
BSDF_sample_f(bxdfs, wo, choice, h, flags) ==
    IF Matching(bxdfs, flags) = <<>>
    THEN NoSample
    ELSE sample_chosen(bxdfs, Matching(bxdfs, flags), wo, flags,
                       bxdf_type(bxdfs[Matching(bxdfs, flags)[choice]]),
                       bxdf_sample_f(bxdfs[Matching(bxdfs, flags)[choice]], wo, h))

(***************************************************************************)
(* The path-traced integrator (integrator.rs).                             *)
(*                                                                         *)
(* path_bounce calls itself last (l + path_bounce(..)), so one call is     *)
(* live at a time.  The state holds the locals of that call; the callers   *)
(* that wait for it only add their own l to what it returns.               *)
(*                                                                         *)
(* The geometry is abstracted: scene.trace returns no intersection or one  *)
(* of PathHits; a light sample is the radiance li, the direction wi and    *)
(* the outcome of the shadow test.                                         *)
(***************************************************************************)
SAMPLE_DEPTH == 3

\* The BSDF each material builds (material.rs: get_bsdf).
DiffuseBSDF(colour) == <<Lambertian(colour)>>
GlassBSDF == <<GlassTransTerm, GlassReflTerm>>
MirrorBSDF == <<MirrorTerm>>

Up == Vec(R(0), R(0), R(1))
Down == Vec(R(0), R(0), R(-1))
Oblique == Vec(Rat(3, 5), R(0), Rat(4, 5))
ObliqueBack == Vec(Rat(4, 5), R(0), Rat(-3, 5))
Grazing == Vec(R(1), R(0), R(0))

Hit(bxdfs, wo) == [bxdfs |-> bxdfs, wo |-> wo]

\* BSDF::new: the BSDF of a material that adds no term to it.
EmptyBSDF == <<>>

\* What scene.trace can return: a diffuse surface of any colour, a mirror,
\* glass met from the inside beyond the critical angle, or a surface whose
\* BSDF holds no term.
PathHits ==
    {Hit(DiffuseBSDF(c), Up) : c \in Palette}
    \cup {Hit(MirrorBSDF, Oblique), Hit(GlassBSDF, ObliqueBack), Hit(EmptyBSDF, Up)}

\* cosine_sample_hemisphere(u1, u2) over the draws (u1, u2).
HemiSamples == {Oblique, Grazing}

\* rng.next_f64(): a draw of [0, 1).
Draws == {R(0), Rat(1, 4), Rat(3, 4)}

\* light.sample / light.shadow at the vertex.
LightSamples ==
    {[li |-> li, wi |-> wi, shadow |-> sh] :
        li \in {VZero, White}, wi \in {Up, Down}, sh \in BOOLEAN}

Depths == {-1} \cup 0..MaxDepth

\* Mutant of luminance: the three channels weigh the same.
luminance_mean(c) == RDiv(RAdd(RAdd(c[1], c[2]), c[3]), R(3))

luminance(c) ==
    RAdd(RAdd(RMul(c[1], Rat(2126, 10000)), RMul(c[2], Rat(7152, 10000))),
         RMul(c[3], Rat(722, 10000)))

sample_light(ls, wo, hit, flags) ==
    IF VIsZero(ls.li) THEN VZero
    ELSE LET f == BSDF_f(hit.bxdfs, wo, ls.wi, flags)
         IN IF VIsZero(f) \/ ls.shadow THEN VZero
            ELSE VScale(VMul(f, ls.li), ls.wi[3])

\* Mutant of sample_one_light: the early return for an empty light list is
\* missing, so rng.choose returns None and expect() panics.
sample_one_light_unguarded(n, ls, wo, hit) ==
    IF n = 0 THEN [panic |-> TRUE, value |-> VZero]
    ELSE [panic |-> FALSE,
          value |-> VScale(sample_light(ls, wo, hit, BitSub(BSDF_ALL, BSDF_SPECULAR)), R(n))]

\* sample_one_light.  ls is the sample of the light rng.choose picked.
sample_one_light(n, ls, wo, hit) ==
    IF n = 0 THEN [panic |-> FALSE, value |-> VZero]
    ELSE [panic |-> FALSE,
          value |-> VScale(sample_light(ls, wo, hit, BitSub(BSDF_ALL, BSDF_SPECULAR)), R(n))]

\* Ray::new_with_depth and Ray::new (ray.rs); origin and direction are part
\* of the abstracted geometry.
Ray_new_with_depth(depth) == [depth |-> depth]

Ray_new == Ray_new_with_depth(0)

\* No value has been drawn for the roulette at this vertex.
NoDraw == R(-1)

PathIdle ==
    /\ ray = Ray_new
    /\ roulette_draw = NoDraw
    /\ pdepth = 0
    /\ nlights = 0
    /\ ppc = "idle"
    /\ bounce = 0
    /\ tp_in = VOne
    /\ throughput = VOne
    /\ l = VZero
    /\ direct = VZero
    /\ specular_bounce = FALSE
    /\ isect = Hit(<<>>, Up)
    /\ samp = NoSample
    /\ pfault = "none"

\* The renderer has traced the camera ray, found isect, and is about to call
\* PathTraced::integrate.
PathInit ==
    /\ ray = Ray_new
    /\ roulette_draw = NoDraw
    /\ pdepth \in Depths
    /\ nlights \in 0..MaxLights
    /\ ppc = "integrate"
    /\ bounce = 0
    /\ tp_in = VOne
    /\ throughput = VOne
    /\ l = VZero
    /\ direct = VZero
    /\ specular_bounce = FALSE
    /\ isect \in PathHits
    /\ samp = NoSample
    /\ pfault = "none"

\* PathTraced::integrate: path_bounce(.., 0, (1,1,1), false).
PathIntegrate ==
    /\ ppc = "integrate"
    /\ ppc' = "direct"
    /\ bounce' = 0
    /\ tp_in' = VOne
    /\ throughput' = VOne
    /\ specular_bounce' = FALSE
    /\ UNCHANGED <<pdepth, nlights, l, direct, isect, samp, pfault, ray, roulette_draw>>

\* `return l` of path_bounce, all the way up.
PathReturn == ppc' = "done"

\* path_bounce: l = l + throughput (*) sample_one_light(..), in either branch
\* of `bounce < SAMPLE_DEPTH`.
\* r is what sample_one_light came to.
PathLit(r) ==
    IF r.panic
    THEN /\ ppc' = "panicked"
         /\ pfault' = "Light could not be chosen"
         /\ UNCHANGED <<l, direct>>
    ELSE /\ ppc' = "sample"
         /\ direct' = r.value
         /\ l' = VAdd(VZero, VMul(tp_in, r.value))
         /\ pfault' = pfault

PathDirectLight ==
    /\ ppc = "direct"
    /\ \E ls \in LightSamples : PathLit(sample_one_light(nlights, ls, isect.wo, isect))
    /\ throughput' = tp_in
    /\ UNCHANGED <<pdepth, nlights, bounce, tp_in, specular_bounce, isect, samp, ray, roulette_draw>>

\* path_bounce: bsdf.sample_f(&wo, rng, BSDF_ALL), the zero test, flags.unwrap()
\* and the new throughput.
\* s is what bsdf.sample_f returned.
\* Mutant of sample_is_zero: the test is missing.
sample_is_zero_never(s) == FALSE

\* path_bounce: `if f == na::zero() || pdf == 0.0 { return l; }`.
sample_is_zero(s) == VIsZero(s.f) \/ REq(s.pdf, R(0))

PathSampled(s) ==
    /\ samp' = s
    /\ IF sample_is_zero(s)
       THEN /\ PathReturn
            /\ UNCHANGED <<throughput, specular_bounce, pfault>>
       ELSE IF ~s.flags.some
       THEN /\ ppc' = "panicked"
            /\ pfault' = "unwrap on None"
            /\ UNCHANGED <<throughput, specular_bounce>>
       ELSE /\ ppc' = "roulette"
            /\ specular_bounce' = Intersects(s.flags.bits, BSDF_SPECULAR)
            /\ throughput' = VDivS(VScale(VMul(tp_in, s.f), RAbs(s.wi[3])), s.pdf)
            /\ UNCHANGED pfault

PathSampleBSDF ==
    /\ ppc = "sample"
    /\ \E choice \in Choices(Len(Matching(isect.bxdfs, BSDF_ALL))), h \in HemiSamples :
        PathSampled(BSDF_sample_f(isect.bxdfs, isect.wo, choice, h, BSDF_ALL))
    /\ UNCHANGED <<pdepth, nlights, bounce, tp_in, l, direct, isect, ray, roulette_draw>>

\* Mutant of RouletteApplies: the roulette starts one bounce early.
RouletteAppliesEarly(b) == b >= 3

\* path_bounce: `if bounce > 3`.
RouletteApplies(b) == b > 3

\* path_bounce: possibly terminate the path using russian roulette.
\* `if rng.next_f64() > continue_probability { return l; }` and the division.
RouletteDraw(draw, continue_probability) ==
    IF RGt(draw, continue_probability)
    THEN /\ PathReturn
         /\ UNCHANGED throughput
    ELSE /\ throughput' = VDivS(throughput, continue_probability)
         /\ ppc' = "depthcheck"

PathRoulette ==
    /\ ppc = "roulette"
    /\ IF RouletteApplies(bounce)
       THEN \E draw \in Draws :
                /\ roulette_draw' = draw
                /\ RouletteDraw(draw, RMin(Rat(1, 2), luminance(throughput)))
       ELSE /\ ppc' = "depthcheck"
            /\ UNCHANGED <<throughput, roulette_draw>>
    /\ UNCHANGED <<pdepth, nlights, bounce, tp_in, l, direct, specular_bounce, isect,
                   samp, pfault, ray>>

\* path_bounce: `if bounce == tracer.depth() { return l; }`.
PathDepthCheck ==
    /\ ppc = "depthcheck"
    /\ IF bounce = pdepth
       THEN PathReturn
       ELSE ppc' = "trace"
    /\ UNCHANGED <<pdepth, nlights, bounce, tp_in, throughput, l, direct,
                   specular_bounce, isect, samp, pfault, ray, roulette_draw>>

\* path_bounce: l + match scene.trace(&ray) { None => zero, .. }.
PathTraceMiss ==
    /\ ppc = "trace"
    /\ PathReturn
    /\ UNCHANGED <<pdepth, nlights, bounce, tp_in, throughput, l, direct,
                   specular_bounce, isect, samp, pfault, ray, roulette_draw>>

\* path_bounce: l + match scene.trace(&ray) { Some(isect) => path_bounce(..,
\* &ray, .., bounce + 1, throughput, specular_bounce), .. }, where ray is
\* `Ray::new(isect.point + wi * 0.000000000001, wi)`.
PathTraceHit ==
    /\ ppc = "trace"
    /\ bounce < MaxBounce
    /\ ray' = Ray_new
    /\ \E h \in PathHits : isect' = h
    /\ bounce' = bounce + 1
    /\ tp_in' = throughput
    /\ l' = VZero
    /\ direct' = VZero
    /\ samp' = NoSample
    /\ roulette_draw' = NoDraw
    /\ ppc' = "direct"
    /\ UNCHANGED <<pdepth, nlights, throughput, specular_bounce, pfault>>

PathNext ==
    /\ \/ PathIntegrate
       \/ PathDirectLight
       \/ PathSampleBSDF
       \/ PathRoulette
       \/ PathDepthCheck
       \/ PathTraceMiss
       \/ PathTraceHit
    /\ UNCHANGED <<pureVars, whittedVars, renderVars, parseVars>>

(***************************************************************************)
(* The renderer and the Whitted integrator (renderer.rs, integrator.rs).   *)
(*                                                                         *)
(* renderer.render traces the ray; on a hit it adds the direct lighting    *)
(* and, while ray.depth is below the limit, the specular reflection and    *)
(* transmission, each of which calls renderer.render for a ray one deeper. *)
(* frames is the call stack: one record per live call of render.           *)
(***************************************************************************)
MaxWhittedDepth == 2

WhittedDepths == {-1} \cup 0..MaxWhittedDepth

NoHit == Hit(<<>>, Up)

\* What scene.trace can return besides None.
WhittedHits == {Hit(DiffuseBSDF(White), Up), Hit(MirrorBSDF, Oblique), Hit(GlassBSDF, Up)}

\* A call of renderer.render for a ray of the given depth, about to trace it.
Frame(depth) ==
    [depth |-> depth, stage |-> "trace", hit |-> FALSE, isect |-> NoHit,
     l |-> VZero, direct |-> VZero, lit |-> FALSE, spawned |-> 0,
     weight |-> VZero, scale |-> R(0)]

Top(fs) == fs[Len(fs)]

SetTop(fs, f) == [fs EXCEPT ![Len(fs)] = f]

\* sample_all_lights: the fold of sample_light over scene.lights; lss holds the
\* sample of each light.
RECURSIVE sample_all_lights(_, _, _)
sample_all_lights(lss, wo, hit) ==
    IF lss = <<>> THEN VZero
    ELSE VAdd(sample_all_lights(SubSeq(lss, 1, Len(lss) - 1), wo, hit),
              sample_light(lss[Len(lss)], wo, hit, BitSub(BSDF_ALL, BSDF_SPECULAR)))

\* Mutant of WhittedRecurses: the specular terms are still added at the limit.
WhittedRecursesAtLimit(depth, limit) == depth <= limit

\* `if ray.depth < self.depth`.
WhittedRecurses(depth, limit) == depth < limit

\* Mutant of RenderMiss: a miss falls through to the lighting of the hit arm.
RenderMissFallsThrough(f) == [f EXCEPT !.stage = "integrate"]

\* render: `None => na::zero()`.
RenderMiss(f) == [f EXCEPT !.stage = "return", !.l = VZero]

\* specular_reflect / specular_transmit: the test that spawns the next ray.
Spawns(s) == RGt(s.pdf, R(0)) /\ ~VIsZero(s.f) /\ ~REq(s.wi[3], R(0))

WhittedIdle ==
    /\ wdepth = 0
    /\ wnlights = 0
    /\ frames = <<>>
    /\ wpc = "idle"
    /\ wresult = VZero

\* The camera ray (Ray::new: depth 0) is handed to renderer.render.
WhittedInit ==
    /\ wdepth \in WhittedDepths
    /\ wnlights \in 0..MaxLights
    /\ frames = <<Frame(0)>>
    /\ wpc = "running"
    /\ wresult = VZero

RenderTraceMiss ==
    /\ wpc = "running"
    /\ Top(frames).stage = "trace"
    /\ frames' = SetTop(frames, RenderMiss(Top(frames)))
    /\ UNCHANGED <<wdepth, wnlights, wpc, wresult>>

RenderTraceHit ==
    /\ wpc = "running"
    /\ Top(frames).stage = "trace"
    /\ \E h \in WhittedHits :
        frames' = SetTop(frames, [Top(frames) EXCEPT !.stage = "integrate",
                                                     !.hit = TRUE, !.isect = h])
    /\ UNCHANGED <<wdepth, wnlights, wpc, wresult>>

\* The frame f once its direct lighting d is known.
Lit(f, d) ==
    [f EXCEPT !.l = d, !.direct = d, !.lit = TRUE,
              !.stage = IF WhittedRecurses(f.depth, wdepth) THEN "reflect" ELSE "return"]

\* Whitted::integrate up to the depth test: the direct lighting.
WhittedIntegrate ==
    /\ wpc = "running"
    /\ Top(frames).stage = "integrate"
    /\ \E lss \in [1..wnlights -> LightSamples] :
        frames' = SetTop(frames,
            Lit(Top(frames),
                sample_all_lights(lss, Top(frames).isect.wo, Top(frames).isect)))
    /\ UNCHANGED <<wdepth, wnlights, wpc, wresult>>

\* specular_reflect / specular_transmit up to the recursive call: the frame
\* waits in `waiting` for the ray it spawned, or goes on to `next`.
SpecularSampled(f, s, waiting, next) ==
    IF Spawns(s)
    THEN frames' = Append(SetTop(frames,
                       [f EXCEPT !.stage = waiting, !.weight = s.f,
                                 !.scale = RDiv(RAbs(s.wi[3]), s.pdf),
                                 !.spawned = @ + 1]),
                       Frame(f.depth + 1))
    ELSE frames' = SetTop(frames, [f EXCEPT !.stage = next])

SpecularStep(flags, waiting, next) ==
    \E choice \in Choices(Len(Matching(Top(frames).isect.bxdfs, flags))) :
        SpecularSampled(Top(frames),
                        BSDF_sample_f(Top(frames).isect.bxdfs, Top(frames).isect.wo,
                                      choice, Up, flags),
                        waiting, next)

\* The frame f once the ray it spawned has returned li.
Returned(f, li, next) ==
    [f EXCEPT !.l = VAdd(f.l, VScale(VMul(f.weight, li), f.scale)), !.stage = next]

\* The recursive render has returned li: l = l + f (*) li * (|dot(wi, n)| / pdf).
SpecularReturn(waiting, next) ==
    /\ Len(frames) > 1
    /\ Top(frames).stage = "return"
    /\ frames[Len(frames) - 1].stage = waiting
    /\ frames' = SetTop(SubSeq(frames, 1, Len(frames) - 1),
                        Returned(frames[Len(frames) - 1], Top(frames).l, next))

SpecularReflect ==
    /\ wpc = "running"
    /\ Top(frames).stage = "reflect"
    /\ SpecularStep(BitOr(BSDF_REFLECTION, BSDF_SPECULAR), "reflect_wait", "transmit")
    /\ UNCHANGED <<wdepth, wnlights, wpc, wresult>>

SpecularReflectReturn ==
    /\ wpc = "running"
    /\ SpecularReturn("reflect_wait", "transmit")
    /\ UNCHANGED <<wdepth, wnlights, wpc, wresult>>

SpecularTransmit ==
    /\ wpc = "running"
    /\ Top(frames).stage = "transmit"
    /\ SpecularStep(BitOr(BSDF_TRANSMISSION, BSDF_SPECULAR), "transmit_wait", "return")
    /\ UNCHANGED <<wdepth, wnlights, wpc, wresult>>

SpecularTransmitReturn ==
    /\ wpc = "running"
    /\ SpecularReturn("transmit_wait", "return")
    /\ UNCHANGED <<wdepth, wnlights, wpc, wresult>>

\* The outermost render returns to the caller of the renderer.
RenderReturn ==
    /\ wpc = "running"
    /\ Len(frames) = 1
    /\ Top(frames).stage = "return"
    /\ wpc' = "done"
    /\ wresult' = Top(frames).l
    /\ UNCHANGED <<wdepth, wnlights, frames>>

WhittedNext ==
    /\ \/ RenderTraceMiss
       \/ RenderTraceHit
       \/ WhittedIntegrate
       \/ SpecularReflect
       \/ SpecularReflectReturn
       \/ SpecularTransmit
       \/ SpecularTransmitReturn
       \/ RenderReturn
    /\ UNCHANGED <<pureVars, pathVars, renderVars, parseVars>>

(***************************************************************************)
(* render (main.rs): the coordinator spawns one worker per thread, each    *)
(* with a clone of the sender tx and a range of columns; it then drops its *)
(* own tx, drains the channel into pixel_map and rebuilds the image.       *)
(***************************************************************************)
MaxWidth == 3
MaxThreads == 2

Heights == 1..2

Min(a, b) == IF a < b THEN a ELSE b

\* `let xchunk_size = width / nthreads;`
xchunk_size(w, n) == w \div n

\* `let xstart = i * xchunk_size;`
xstart(i, w, n) == i * xchunk_size(w, n)

\* `let xend = f32::min(width as f32, (xstart + xchunk_size) as f32) as u32;`
xend(i, w, n) == Min(w, xstart(i, w, n) + xchunk_size(w, n))

Unspawned == [state |-> "unspawned", xstart |-> 0, xend |-> 0, x |-> 0, y |-> 0, tx |-> FALSE]

\* Mutant of TxAfterDrop: the coordinator keeps its sender.
TxAfterDropKept == TRUE

\* `drop(tx);`: the coordinator no longer holds a sender.
TxAfterDrop == FALSE

\* `samples` of main: `assert!(samples > 0)`.
Samples == 1..2

\* The Arc<PerspectiveCamera>, Arc<Scene> and Arc<StandardRenderer> every
\* worker holds a clone of: the number of writes each has seen.
Shared == [camera |-> 0, scene |-> 0, renderer |-> 0]

\* A generator nothing has been drawn from: the StdRng the closure creates
\* and the thread-local generator behind rand::random.
Fresh == [rng |-> 0, thread_rng |-> 0]

\* Mutant of rng_of: every worker draws from the generator of worker 0.
rng_of_shared(w) == 0

\* `let mut rng = StdRng::new()` inside the closure: worker w draws from its
\* own generator.
rng_of(w) == w

\* The draws of one pixel: with one sample a single renderer.render(.., &mut
\* rng); otherwise, per sample, two rand::random and one renderer.render.
pixel_draws(g, samples) ==
    IF samples = 1 THEN [g EXCEPT !.rng = @ + 1]
    ELSE [rng |-> g.rng + samples, thread_rng |-> g.thread_rng + 2 * samples]

RenderIdle ==
    /\ width = 0
    /\ height = 0
    /\ nthreads = 0
    /\ cpc = "idle"
    /\ nspawned = 0
    /\ workers = <<>>
    /\ chan = <<>>
    /\ coord_tx = FALSE
    /\ pixel_map = {}
    /\ samples_per_pixel = 1
    /\ shared = Shared
    /\ rngs = <<>>

\* render has created the channel: `let (tx, rx) = mpsc::channel();`.
RenderInit ==
    /\ width \in 1..MaxWidth
    /\ height \in Heights
    /\ nthreads \in 1..MaxThreads
    /\ cpc = "spawn"
    /\ nspawned = 0
    /\ workers = [w \in 0..(nthreads - 1) |-> Unspawned]
    /\ chan = <<>>
    /\ coord_tx = TRUE
    /\ pixel_map = {}
    /\ samples_per_pixel \in Samples
    /\ shared = Shared
    /\ rngs = [w \in 0..(nthreads - 1) |-> Fresh]

\* One turn of `for i in 0..nthreads`: the range, tx.clone(), thread::spawn.
CoordinatorSpawn ==
    /\ cpc = "spawn"
    /\ nspawned < nthreads
    /\ workers' = [workers EXCEPT ![nspawned] =
           [state |-> "running",
            xstart |-> xstart(nspawned, width, nthreads),
            xend |-> xend(nspawned, width, nthreads),
            x |-> xstart(nspawned, width, nthreads), y |-> 0, tx |-> TRUE]]
    /\ nspawned' = nspawned + 1
    /\ UNCHANGED <<width, height, nthreads, samples_per_pixel, shared, rngs, cpc, chan, coord_tx, pixel_map>>

\* After the loop: pixel_map is created and the coordinator drops tx.
CoordinatorDropTx ==
    /\ cpc = "spawn"
    /\ nspawned = nthreads
    /\ coord_tx' = TxAfterDrop
    /\ cpc' = "recv"
    /\ UNCHANGED <<width, height, nthreads, samples_per_pixel, shared, rngs, nspawned, workers, chan, pixel_map>>

\* One turn of `for (x, y, c) in rx`: pixel_map.insert((x, y), c).
CoordinatorRecv ==
    /\ cpc = "recv"
    /\ chan # <<>>
    /\ pixel_map' = pixel_map \cup {Head(chan)}
    /\ chan' = Tail(chan)
    /\ UNCHANGED <<width, height, nthreads, samples_per_pixel, shared, rngs, cpc, nspawned, workers, coord_tx>>

SendersAlive == coord_tx \/ \E w \in DOMAIN workers : workers[w].tx

\* The iteration over rx ends when the channel is empty and every sender is
\* dropped.
CoordinatorRecvEnd ==
    /\ cpc = "recv"
    /\ chan = <<>>
    /\ ~SendersAlive
    /\ cpc' = "reconstruct"
    /\ UNCHANGED <<width, height, nthreads, samples_per_pixel, shared, rngs, nspawned, workers, chan, coord_tx, pixel_map>>

AllPixels == (0..(width - 1)) \X (0..(height - 1))

\* Mutant of reconstruct: a missing pixel is left black instead of panicking.
reconstruct_lenient(have, all) == "done"

\* The reconstruction loop over every (x, y) of the image:
\* pixel_map.get(&(x, y)).expect("No pixel at .."), then `colours` is returned.
reconstruct(have, all) == IF all \subseteq have THEN "done" ELSE "panicked"

CoordinatorReconstruct ==
    /\ cpc = "reconstruct"
    /\ cpc' = reconstruct(pixel_map, AllPixels)
    /\ UNCHANGED <<width, height, nthreads, samples_per_pixel, shared, rngs, nspawned, workers, chan, coord_tx, pixel_map>>

CoordinatorStep ==
    \/ CoordinatorSpawn
    \/ CoordinatorDropTx
    \/ CoordinatorRecv
    \/ CoordinatorRecvEnd
    \/ CoordinatorReconstruct

\* The body of the worker's loops: render the pixel and tx.send((x, y, c)).
WorkerSend(w) ==
    /\ w \in DOMAIN workers
    /\ workers[w].state = "running"
    /\ workers[w].x < workers[w].xend
    /\ height > 0
    /\ rngs' = [rngs EXCEPT ![rng_of(w)] = pixel_draws(@, samples_per_pixel)]
    /\ chan' = Append(chan, <<workers[w].x, workers[w].y>>)
    /\ workers' = [workers EXCEPT ![w] =
           IF workers[w].y + 1 < height
           THEN [@ EXCEPT !.y = @ + 1]
           ELSE [@ EXCEPT !.x = @ + 1, !.y = 0]]
    /\ UNCHANGED <<width, height, nthreads, samples_per_pixel, shared, cpc, nspawned, coord_tx, pixel_map>>

\* The closure returns: its captures, the sender clone among them, are dropped.
WorkerFinish(w) ==
    /\ w \in DOMAIN workers
    /\ workers[w].state = "running"
    /\ (workers[w].x >= workers[w].xend \/ height = 0)
    /\ workers' = [workers EXCEPT ![w] = [@ EXCEPT !.state = "finished", !.tx = FALSE]]
    /\ UNCHANGED <<width, height, nthreads, samples_per_pixel, shared, rngs, cpc, nspawned, chan, coord_tx, pixel_map>>

\* The worker panics (StdRng::new fails, or the renderer panics): unwinding
\* drops the captures of the closure.
WorkerPanic(w) ==
    /\ w \in DOMAIN workers
    /\ workers[w].state = "running"
    /\ workers' = [workers EXCEPT ![w] = [@ EXCEPT !.state = "panicked", !.tx = FALSE]]
    /\ UNCHANGED <<width, height, nthreads, samples_per_pixel, shared, rngs, cpc, nspawned, chan, coord_tx, pixel_map>>

RenderNext ==
    /\ \/ CoordinatorStep
       \/ \E w \in 0..(MaxThreads - 1) : WorkerSend(w)
       \/ \E w \in 0..(MaxThreads - 1) : WorkerFinish(w)
       \/ \E w \in 0..(MaxThreads - 1) : WorkerPanic(w)
    /\ UNCHANGED <<pureVars, pathVars, whittedVars, parseVars>>

(***************************************************************************)
(* parse_scene (parse.rs).                                                 *)
(*                                                                         *)
(* A scene description is abstracted to what the parser looks at: for each *)
(* key the parser reads, whether the key is there ("missing"), whether its *)
(* value has the JSON type the parser asks for ("wrongtype"), and, for the *)
(* keys that select a variant or name another entry, which variant or      *)
(* whether the name resolves.  The description holds one camera, one view, *)
(* one material, one object and one light.                                 *)
(***************************************************************************)
MaxChanges == 2

\* The description every input is a variation of.
Reference ==
    [json |-> "ok",
     cameras |-> "ok", views |-> "ok", objects |-> "ok", materials |-> "ok",
     lights |-> "ok",
     camera_transform |-> "ok", camera_width |-> "ok", camera_fov |-> "ok",
     camera_type |-> "Perspective",
     view_camera |-> "found", view_samples |-> "ok", view_depth |-> "ok",
     view_integrator |-> "Path", view_renderer |-> "Standard",
     material_type |-> "Diffuse", material_texture |-> "ok",
     texture_type |-> "Constant", texture_colour |-> "ok", texture_filename |-> "ok",
     object_material |-> "found", object_transform |-> "ok",
     object_Intersectable |-> "Ball", object_extents |-> "ok", object_radius |-> "ok",
     light_type |-> "Point", light_colour |-> "ok", light_position |-> "ok",
     light_radius |-> "ok"]

Fields == DOMAIN Reference

\* The values a field can take besides the one of Reference.
OtherValues(f) ==
    CASE f = "json" -> {"invalid"}
      [] f = "camera_type" -> {"missing", "wrongtype", "Other"}
      [] f = "view_integrator" -> {"missing", "wrongtype", "Whitted", "Other"}
      [] f = "view_renderer" -> {"missing", "wrongtype", "Other"}
      [] f = "material_type" -> {"missing", "wrongtype", "Glass", "Mirror", "Other"}
      [] f = "texture_type" -> {"missing", "wrongtype", "Image", "Other"}
      [] f = "texture_filename" -> {"missing", "wrongtype", "unreadable"}
      [] f = "object_Intersectable" -> {"missing", "wrongtype", "Cuboid", "Other"}
      [] f = "light_type" -> {"missing", "wrongtype", "Other"}
      [] f \in {"view_camera", "object_material"} -> {"missing", "wrongtype", "dangling"}
      [] OTHER -> {"missing", "wrongtype"}

Changes == {c \in Fields \X {"invalid", "missing", "wrongtype", "Other", "Whitted", "Glass",
                             "Mirror", "Image", "unreadable", "Cuboid", "dangling"} :
               c[2] \in OtherValues(c[1])}

\* The sets of at most k changes, no two of the same field.
RECURSIVE ChangeSets(_)
ChangeSets(k) ==
    IF k = 0 THEN {{}}
    ELSE LET prev == ChangeSets(k - 1)
         IN prev \cup {x[1] \cup {x[2]} :
                          x \in {y \in prev \X Changes :
                                    \A c \in y[1] : c[1] # y[2][1]}}

Changed(cs) ==
    [f \in Fields |->
        IF \E c \in cs : c[1] = f THEN (CHOOSE c \in cs : c[1] = f)[2] ELSE Reference[f]]

Documents == {Changed(cs) : cs \in ChangeSets(MaxChanges)}

\* The variants of parse::Error.
Error ==
    {"ExpectedArray", "ExpectedU64", "ExpectedF64", "ExpectedI64", "ExpectedObject",
     "ExpectedString", "Json", "MalformedPoint", "MalformedSpectrum", "MalformedVector",
     "MissingKey", "MissingReference", "Texture"}

\* What a step of the parser comes to.
Passed == [kind |-> "ok", error |-> "", key |-> ""]
Err(error, key) == [kind |-> "Err", error |-> error, key |-> key]
Panic(msg) == [kind |-> "panic", error |-> msg, key |-> ""]

\* The result of the first step that does not pass, in the order of the code.
RECURSIVE First(_)
First(steps) ==
    IF steps = <<>> THEN Passed
    ELSE IF Head(steps).kind # "ok" THEN Head(steps)
    ELSE First(Tail(steps))

\* try!(data.get(key).ok_or(Error::MissingKey(key))) followed by the typed
\* accessor of the value (try_get_string, try_get_f64, as_object, ..).
Get(d, f, key, type_error, type_key) ==
    IF d[f] = "missing" THEN Err("MissingKey", key)
    ELSE IF d[f] = "wrongtype" THEN Err(type_error, type_key)
    ELSE Passed

\* The `_ => panic!(..)` arm of a match on a type name.
Unrecognised(msg) == Panic(msg)

\* cameras.get(camera).unwrap() / materials.get(material).expect(..) on a name
\* that is in no entry.
MissingReference(msg) == Panic(msg)

parse_camera(d) ==
    First(<<Get(d, "camera_transform", "transform", "ExpectedObject", "transform"),
            Get(d, "camera_width", "width", "ExpectedU64", "width"),
            Get(d, "camera_fov", "fov", "ExpectedF64", "fov"),
            Get(d, "camera_type", "type", "ExpectedString", "type"),
            IF d["camera_type"] = "Perspective" THEN Passed
            ELSE Unrecognised("Unrecognised camera type")>>)

parse_cameras(d) ==
    IF d["cameras"] = "wrongtype" THEN Err("ExpectedObject", "cameras")
    ELSE parse_camera(d)

parse_view(d) ==
    First(<<Get(d, "view_camera", "camera", "ExpectedString", "camera"),
            IF d["view_camera"] = "dangling"
            THEN MissingReference("unwrap on None")
            ELSE Passed,
            Get(d, "view_samples", "samples", "ExpectedI64", "samples"),
            Get(d, "view_depth", "depth", "ExpectedI64", "depth"),
            Get(d, "view_integrator", "integrator", "ExpectedString", "integrator"),
            IF d["view_integrator"] \in {"Path", "Whitted"} THEN Passed
            ELSE Unrecognised("Unrecognised integrator"),
            Get(d, "view_renderer", "renderer", "ExpectedString", "renderer"),
            IF d["view_renderer"] = "Standard" THEN Passed
            ELSE Unrecognised("Unrecognised renderer")>>)

parse_views(d) ==
    IF d["views"] = "wrongtype" THEN Err("ExpectedObject", "views")
    ELSE parse_view(d)

parse_constant_texture(d) ==
    Get(d, "texture_colour", "colour", "ExpectedArray", "spectrum")

parse_image_texture(d) ==
    First(<<Get(d, "texture_filename", "filename", "ExpectedString", "filename"),
            IF d["texture_filename"] = "unreadable" THEN Err("Texture", "") ELSE Passed>>)

parse_texture(d) ==
    First(<<Get(d, "texture_type", "type", "ExpectedString", "type"),
            CASE d["texture_type"] = "Constant" -> parse_constant_texture(d)
              [] d["texture_type"] = "Image" -> parse_image_texture(d)
              [] OTHER -> Unrecognised("Unrecognised texture type")>>)

parse_diffuse_material(d) ==
    First(<<Get(d, "material_texture", "texture", "ExpectedObject", "texture"),
            parse_texture(d)>>)

parse_material(d) ==
    First(<<Get(d, "material_type", "type", "ExpectedString", "type"),
            CASE d["material_type"] \in {"Glass", "Mirror"} -> Passed
              [] d["material_type"] = "Diffuse" -> parse_diffuse_material(d)
              [] OTHER -> Unrecognised("Unrecognised material type")>>)

parse_materials(d) ==
    IF d["materials"] = "wrongtype" THEN Err("ExpectedObject", "materials")
    ELSE parse_material(d)

parse_object(d) ==
    First(<<Get(d, "object_material", "material", "ExpectedString", "material"),
            IF d["object_material"] = "dangling"
            THEN MissingReference("No Material found with name")
            ELSE Passed,
            Get(d, "object_transform", "transform", "ExpectedObject", "transform"),
            Get(d, "object_Intersectable", "Intersectable", "ExpectedString",
                "Intersectable"),
            CASE d["object_Intersectable"] = "Cuboid" ->
                     Get(d, "object_extents", "extents", "ExpectedArray", "vector")
              [] d["object_Intersectable"] = "Ball" ->
                     Get(d, "object_radius", "radius", "ExpectedF64", "radius")
              [] OTHER -> Unrecognised("Unrecognised Intersectable")>>)

parse_objects(d) ==
    IF d["objects"] = "wrongtype" THEN Err("ExpectedObject", "objects")
    ELSE parse_object(d)

parse_light(d) ==
    First(<<Get(d, "light_type", "type", "ExpectedString", "type"),
            Get(d, "light_colour", "colour", "ExpectedArray", "spectrum"),
            IF d["light_type"] = "Point"
            THEN First(<<Get(d, "light_position", "position", "ExpectedArray", "point"),
                         Get(d, "light_radius", "radius", "ExpectedF64", "radius")>>)
            ELSE Unrecognised("Unrecognised light type")>>)

parse_lights(d) ==
    IF d["lights"] = "wrongtype" THEN Err("ExpectedObject", "lights")
    ELSE parse_light(d)

\* The five data.pointer(..).ok_or(Error::MissingKey(..)) of parse_scene.
TopLevelKeys(d) ==
    First(<<IF d["cameras"] = "missing" THEN Err("MissingKey", "cameras") ELSE Passed,
            IF d["views"] = "missing" THEN Err("MissingKey", "views") ELSE Passed,
            IF d["objects"] = "missing" THEN Err("MissingKey", "objects") ELSE Passed,
            IF d["materials"] = "missing" THEN Err("MissingKey", "materials") ELSE Passed,
            IF d["lights"] = "missing" THEN Err("MissingKey", "lights") ELSE Passed>>)

Running == [kind |-> "running", error |-> "", key |-> ""]

ParseIdle ==
    /\ doc = <<>>
    /\ parse_pc = "idle"
    /\ outcome = Running

\* parse_scene is called with the text of a scene description.
ParseInit ==
    /\ doc \in Documents
    /\ parse_pc = "json"
    /\ outcome = Running

\* A step of parse_scene: try!(step) returns the Err, a panic unwinds, and
\* otherwise the parser goes on to `next`.
ParseStep(at, result, next) ==
    /\ parse_pc = at
    /\ outcome.kind = "running"
    /\ IF result.kind = "ok"
       THEN /\ parse_pc' = next
            /\ outcome' = IF next = "done" THEN [Running EXCEPT !.kind = "Ok"] ELSE outcome
       ELSE /\ parse_pc' = "done"
            /\ outcome' = result
    /\ UNCHANGED doc

ParseJson ==
    ParseStep("json", IF doc["json"] = "invalid" THEN Err("Json", "") ELSE Passed, "keys")

ParseKeys == ParseStep("keys", TopLevelKeys(doc), "cameras")

ParseCameras == ParseStep("cameras", parse_cameras(doc), "views")

ParseViews == ParseStep("views", parse_views(doc), "materials")

ParseMaterials == ParseStep("materials", parse_materials(doc), "objects")

ParseObjects == ParseStep("objects", parse_objects(doc), "lights")

\* parse_lights, then Scene::new, add_light and Ok((scene, views)).
ParseLights == ParseStep("lights", parse_lights(doc), "done")

ParseNext ==
    /\ \/ ParseJson
       \/ ParseKeys
       \/ ParseCameras
       \/ ParseViews
       \/ ParseMaterials
       \/ ParseObjects
       \/ ParseLights
    /\ UNCHANGED <<pureVars, pathVars, whittedVars, renderVars>>

\* PathTraced::integrate is called; nothing else runs.
InitPath == PathInit /\ PureIdle /\ WhittedIdle /\ RenderIdle /\ ParseIdle

SpecPath == InitPath /\ [][PathNext]_vars

\* StandardRenderer::render is called with a camera ray; nothing else runs.
InitWhitted == WhittedInit /\ PureIdle /\ PathIdle /\ RenderIdle /\ ParseIdle

SpecWhitted == InitWhitted /\ [][WhittedNext]_vars

\* main.rs render is called; the integrators are not modelled inside it.
InitRender == RenderInit /\ PureIdle /\ PathIdle /\ WhittedIdle /\ ParseIdle

SpecRender == InitRender /\ [][RenderNext]_vars

\* The operating system schedules every thread that can take a step; a panic
\* is never forced.
RenderFairness ==
    /\ WF_renderVars(CoordinatorStep)
    /\ \A w \in 0..(MaxThreads - 1) : WF_renderVars(WorkerSend(w) \/ WorkerFinish(w))

SpecRenderLive == InitRender /\ [][RenderNext]_vars /\ RenderFairness

\* parse_scene is called; nothing else runs.
InitParse == ParseInit /\ PureIdle /\ PathIdle /\ WhittedIdle /\ RenderIdle

SpecParse == InitParse /\ [][ParseNext]_vars

(***************************************************************************)
(* Inputs of the pure-function checks.                                     *)
(***************************************************************************)
Terms == {Lambertian(c) : c \in {White, Red}} \cup {MirrorTerm, GlassReflTerm, GlassTransTerm}

TermLists == UNION {[1..n -> Terms] : n \in 0..MaxTerms}

\* Unit directions with rational components, on both sides of the surface
\* and in its plane.
Dirs == {Vec(R(0), R(0), R(1)), Vec(Rat(3, 5), R(0), Rat(4, 5)),
         Vec(R(1), R(0), R(0)),
         Vec(Rat(4, 5), R(0), Rat(-3, 5)), Vec(R(0), R(0), R(-1))}

(***************************************************************************)
(* Pure functions applied to enumerated inputs: each behaviour applies one *)
(* function to one input and records the arguments and the result.         *)
(***************************************************************************)
PureInit == PureIdle /\ PathIdle /\ WhittedIdle /\ RenderIdle /\ ParseIdle

CallMatchesFlags ==
    /\ call.op = "none"
    /\ \E T \in BxDFTypes, F \in BxDFTypes :
        call' = [op |-> "matches_flags", args |-> <<T, F>>,
                 result |-> matches_flags(T, F)]

CallBSDFf ==
    /\ call.op = "none"
    /\ \E bxdfs \in TermLists, wo \in Dirs, wi \in Dirs, flags \in BxDFTypes :
        call' = [op |-> "BSDF_f", args |-> <<bxdfs, wo, wi, flags>>,
                 result |-> [terms |-> BSDF_f_terms(bxdfs, wo, wi, flags),
                             f |-> BSDF_f(bxdfs, wo, wi, flags)]]

\* The surfaces material.rs builds, seen from either side.
PureBSDFs == {DiffuseBSDF(White), DiffuseBSDF(Red), GlassBSDF, MirrorBSDF}

\* light.sample and light.shadow at a vertex: radiance, a unit direction
\* toward the light, and the shadow test.
PureLightSamples ==
    {[li |-> li, wi |-> wi, shadow |-> sh] :
        li \in {VZero, White, Red}, wi \in Dirs, sh \in BOOLEAN}

CallSampleLight ==
    /\ call.op = "none"
    /\ \E bxdfs \in PureBSDFs, wo \in Dirs, ls \in PureLightSamples :
        call' = [op |-> "sample_light", args |-> <<ls, wo, bxdfs>>,
                 result |-> [f |-> BSDF_f(bxdfs, wo, ls.wi, BitSub(BSDF_ALL, BSDF_SPECULAR)),
                             value |-> sample_light(ls, wo, Hit(bxdfs, wo),
                                                    BitSub(BSDF_ALL, BSDF_SPECULAR))]]

\* Mutant of cross: the operands are taken in the other order.
cross_reversed(a, b) ==
    Vec(RSub(RMul(b[2], a[3]), RMul(b[3], a[2])),
        RSub(RMul(b[3], a[1]), RMul(b[1], a[3])),
        RSub(RMul(b[1], a[2]), RMul(b[2], a[1])))

\* na::cross.
cross(a, b) ==
    Vec(RSub(RMul(a[2], b[3]), RMul(a[3], b[2])),
        RSub(RMul(a[3], b[1]), RMul(a[1], b[3])),
        RSub(RMul(a[1], b[2]), RMul(a[2], b[1])))

\* coordinate_system: `let invlen = 1.0 / (a * a + b * b).sqrt();`.
invlen(a, b) == RDiv(R(1), RSqrt(RAdd(RMul(a, a), RMul(b, b))))

\* coordinate_system: the vector v2 built from v1.
coordinate_system_v2(v1) ==
    IF RGt(RAbs(v1[1]), RAbs(v1[2]))
    THEN Vec(RMul(RNeg(v1[3]), invlen(v1[1], v1[3])), R(0),
             RMul(v1[1], invlen(v1[1], v1[3])))
    ELSE Vec(R(0), RMul(v1[3], invlen(v1[2], v1[3])),
             RMul(RNeg(v1[2]), invlen(v1[2], v1[3])))

\* Mutant of coordinate_system: the pair is returned in the other order.
coordinate_system_swapped(v1) ==
    [t |-> cross(v1, coordinate_system_v2(v1)), b |-> coordinate_system_v2(v1)]

\* coordinate_system(v1) returns (v2, v3) with v3 = cross(v1, v2); t is the
\* first and b the second of the pair (BSDF::world_to_local_from_normal:
\* `let (tangent, binormal) = math::coordinate_system(normal)`).
coordinate_system(v1) ==
    [t |-> coordinate_system_v2(v1), b |-> cross(v1, coordinate_system_v2(v1))]

\* The six axis-aligned unit vectors.
Axes ==
    {Vec(R(1), R(0), R(0)), Vec(R(-1), R(0), R(0)), Vec(R(0), R(1), R(0)),
     Vec(R(0), R(-1), R(0)), Vec(R(0), R(0), R(1)), Vec(R(0), R(0), R(-1))}

\* Unit normals: the axes and some directions between them.
Normals ==
    Axes \cup {Vec(Rat(3, 5), R(0), Rat(4, 5)), Vec(R(0), Rat(3, 5), Rat(-4, 5)),
               Vec(Rat(-4, 5), Rat(3, 5), R(0)), Vec(Rat(3, 5), Rat(4, 5), R(0))}

CallCoordinateSystem ==
    /\ call.op = "none"
    /\ \E v \in Normals :
        call' = [op |-> "coordinate_system", args |-> <<v>>,
                 result |-> coordinate_system(v)]

\* The dielectric interfaces: air to glass (material.rs), glass to air, and
\* a denser medium.
Dielectrics ==
    {FresnelDielectric(R(1), Rat(3, 2)), FresnelDielectric(Rat(3, 2), R(1)),
     FresnelDielectric(R(1), R(2))}

\* Cosines of the angle of incidence, one of them outside [-1, 1].
Cosines == {R(1), Rat(4, 5), Rat(3, 5), R(0), Rat(-3, 5), R(-1), R(2)}

CallFresnelDielectric ==
    /\ call.op = "none"
    /\ \E fr \in Dielectrics, cosi \in Cosines :
        call' = [op |-> "FresnelDielectric_evaluate", args |-> <<fr, cosi>>,
                 result |-> FresnelDielectric_evaluate(fr, cosi)]

\* `wi.normalize_mut()`: the vector over its norm.
normalize(v) == VDivS(v, RSqrt(VDot(v, v)))

PointLight(intensity, colour, position, radius) ==
    [intensity |-> intensity, colour |-> colour, position |-> position, radius |-> radius]

\* Mutant of within_radius: the squared distance is compared with the radius.
within_radius_linear(dist, radius) == RGt(dist, R(0)) /\ RLe(dist, radius)

\* PointLight::sample: `dist > 0.0 && dist <= self.radius * self.radius`,
\* where dist is the squared norm.
within_radius(dist, radius) == RGt(dist, R(0)) /\ RLe(dist, RMul(radius, radius))

\* PointLight::sample, once dist = wi.norm_squared() is known.
PointLight_lit(light, wi, dist) ==
    IF within_radius(dist, light.radius)
    THEN [li |-> VScale(VScale(light.colour, light.intensity),
                        RMul(RDiv(R(1), dist), light.radius)),
          wi |-> normalize(wi)]
    ELSE [li |-> VZero, wi |-> normalize(wi)]

\* PointLight::sample(p).
PointLight_sample(light, p) ==
    PointLight_lit(light, VSub(light.position, p),
                   VDot(VSub(light.position, p), VSub(light.position, p)))

\* The point lights of the scenes: setup_scene builds them with intensity 1
\* and a positive radius; parse_point_light with intensity 1.
PointLights ==
    {PointLight(i, c, pos, r) :
        i \in {R(1), R(2)}, c \in {White, Red},
        pos \in {Vec(R(0), R(2), R(0)), Vec(R(0), R(0), R(0))},
        r \in {R(1), R(2), R(8)}}

\* Where the light is, seen from the shading point: at the point itself and
\* at distances 1, 2, 3, 5, 7, 8, 9 and 13.
LightOffsets ==
    {Vec(R(0), R(0), R(0)), Vec(R(0), R(1), R(0)), Vec(R(-2), R(0), R(0)),
     Vec(R(1), R(2), R(2)), Vec(R(3), R(-4), R(0)), Vec(R(2), R(3), R(6)),
     Vec(R(0), R(0), R(-8)), Vec(R(4), R(4), R(7)), Vec(R(12), R(0), R(5))}

CallPointLightSample ==
    /\ call.op = "none"
    /\ \E light \in PointLights, o \in LightOffsets :
        call' = [op |-> "PointLight_sample", args |-> <<light, VSub(light.position, o)>>,
                 result |-> PointLight_sample(light, VSub(light.position, o))]

\* Points of the unit disc, as concentric_sample_disc returns them.
DiscPoints ==
    {<<R(0), R(0)>>, <<Rat(3, 5), R(0)>>, <<R(0), Rat(-4, 5)>>, <<Rat(3, 5), Rat(4, 5)>>,
     <<R(-1), R(0)>>}

\* BxDF::sample_f of one term, for a unit wo and a sample of the disc.
CallSampleF ==
    /\ call.op = "none"
    /\ \E bxdf \in Terms, wo \in Dirs, d \in DiscPoints :
        call' = [op |-> "sample_f", args |-> <<bxdf, wo, d>>,
                 result |-> bxdf_sample_f(bxdf, wo, cosine_sample_hemisphere(d[1], d[2]))]

\* The flags the integrators sample with, and two that match fewer terms.
SampleFlags ==
    {BSDF_ALL, BitOr(BSDF_REFLECTION, BSDF_SPECULAR), BitOr(BSDF_TRANSMISSION, BSDF_SPECULAR),
     BitSub(BSDF_ALL, BSDF_SPECULAR), BSDF_DIFFUSE}

\* BSDF::sample_f in the local frame: choice is what rng.choose picks among
\* the matching terms and d the point of the disc behind (u1, u2).
CallBSDFSampleF ==
    /\ call.op = "none"
    /\ \E bxdfs \in TermLists, wo \in Dirs, d \in DiscPoints, flags \in SampleFlags :
        \E choice \in Choices(Len(Matching(bxdfs, flags))) :
            call' = [op |-> "BSDF_sample_f", args |-> <<bxdfs, wo, choice, d, flags>>,
                     result |-> BSDF_sample_f(bxdfs, wo, choice,
                                              cosine_sample_hemisphere(d[1], d[2]), flags)]

(***************************************************************************)
(* Scene::trace and Scene::intersections (scene.rs).  The bounding-volume  *)
(* tree is abstracted to its result: the list of candidate nodes, each     *)
(* with what the ray cast of its shape returns (None, or a hit parameter   *)
(* toi).  The shapes of main.rs (Ball, Cuboid) return their uvs with every *)
(* hit.                                                                    *)
(***************************************************************************)
MaxNodes == 3

TOI_EPSILON == Rat(1, 100000000)

\* std::f64::MAX, above every hit parameter of the model.
F64_MAX == R(1000000)

NoCast == [some |-> FALSE, toi |-> R(0)]
Cast(toi) == [some |-> TRUE, toi |-> toi]

\* get_nearest: `isect.toi > 0.00000001`.
above_threshold(toi) == RGt(toi, TOI_EPSILON)

\* Mutant of nearer: a later candidate at the same parameter replaces the
\* earlier one.
nearer_or_level(nearest, cast, n) ==
    IF cast.some /\ above_threshold(cast.toi) /\ RLe(cast.toi, nearest.toi)
    THEN [node |-> n, toi |-> cast.toi]
    ELSE nearest

\* get_nearest, one turn of the loop: nearest is (nearest_node,
\* nearest_toi) with node 0 for None, and n the index of the node.
nearer(nearest, cast, n) ==
    IF cast.some /\ above_threshold(cast.toi) /\ RLt(cast.toi, nearest.toi)
    THEN [node |-> n, toi |-> cast.toi]
    ELSE nearest

\* get_nearest after the first n candidates.
RECURSIVE get_nearest_from(_, _)
get_nearest_from(nodes, n) ==
    IF n = 0 THEN [node |-> 0, toi |-> F64_MAX]
    ELSE nearer(get_nearest_from(nodes, n - 1), nodes[n], n)

get_nearest(nodes) == get_nearest_from(nodes, Len(nodes))

\* Scene::trace, on the candidates the tree visit collected: the node and
\* the hit parameter of the intersection it builds, or None.
Scene_trace(nodes) ==
    IF get_nearest(nodes).node # 0
    THEN [some |-> TRUE, node |-> get_nearest(nodes).node, toi |-> get_nearest(nodes).toi]
    ELSE [some |-> FALSE, node |-> 0, toi |-> R(0)]

\* Scene::intersections: the positive hit parameters, in candidate order.
RECURSIVE Scene_intersections(_)
Scene_intersections(nodes) ==
    IF nodes = <<>> THEN <<>>
    ELSE IF Head(nodes).some /\ RGt(Head(nodes).toi, R(0))
         THEN <<Head(nodes).toi>> \o Scene_intersections(Tail(nodes))
         ELSE Scene_intersections(Tail(nodes))

\* Mutant of nearer_than: a hit at the distance of the light occludes.
nearer_or_at(x, dist) == RLe(x, dist)

\* PointLight::shadow: `|&x| x < dist`.
nearer_than(x, dist) == RLt(x, dist)

\* PointLight::shadow; nodes are the candidates of the ray from p toward
\* the light.
PointLight_shadow(light, p, nodes) ==
    \E i \in 1..Len(Scene_intersections(nodes)) :
        nearer_than(Scene_intersections(nodes)[i], RSqrt(VDot(VSub(light.position, p),
                                                               VSub(light.position, p))))

\* Hit parameters behind the origin, at it, at the threshold and beyond.
Tois == {R(-1), R(0), TOI_EPSILON, Rat(1, 2), R(1), R(2)}

Casts == {NoCast} \cup {Cast(t) : t \in Tois}

CandidateLists == UNION {[1..n -> Casts] : n \in 0..MaxNodes}

CallTrace ==
    /\ call.op = "none"
    /\ \E nodes \in CandidateLists :
        call' = [op |-> "trace", args |-> <<nodes>>, result |-> Scene_trace(nodes)]

\* The light seen from the shading point at distances 0, 1, 2 and 3.
ShadowOffsets ==
    {Vec(R(0), R(0), R(0)), Vec(R(0), R(1), R(0)), Vec(R(-2), R(0), R(0)),
     Vec(R(1), R(2), R(2))}

CallPointLightShadow ==
    /\ call.op = "none"
    /\ \E o \in ShadowOffsets, nodes \in CandidateLists :
        LET light == PointLight(R(1), White, Vec(R(0), R(2), R(0)), R(8))
        IN call' = [op |-> "shadow", args |-> <<light, VSub(light.position, o), nodes>>,
                    result |-> PointLight_shadow(light, VSub(light.position, o), nodes)]

\* Clamp for Scalar with its assertion `assert!(min <= max)`.
Scalar_clamp(x, min, max) ==
    IF RLe(min, max) THEN [panicked |-> FALSE, value |-> clamp(x, min, max)]
    ELSE [panicked |-> TRUE, value |-> RNaN]

\* Values of f64: finite ones, the infinities and NaN.
Scalars ==
    {R(-2), R(-1), Rat(-1, 2), R(0), Rat(1, 2), R(1), R(2), <<1, 0>>, <<-1, 0>>, RNaN}

CallClamp ==
    /\ call.op = "none"
    /\ \E x \in Scalars, min \in Scalars, max \in Scalars :
        call' = [op |-> "clamp", args |-> <<x, min, max>>,
                 result |-> Scalar_clamp(x, min, max)]

PureNext ==
    /\ \/ CallMatchesFlags
       \/ CallTrace
       \/ CallPointLightShadow
       \/ CallClamp
       \/ CallBSDFSampleF
       \/ CallBSDFf
       \/ CallSampleLight
       \/ CallSampleF
       \/ CallPointLightSample
       \/ CallCoordinateSystem
       \/ CallFresnelDielectric
    /\ UNCHANGED <<pathVars, whittedVars, renderVars, parseVars>>

SpecPure == PureInit /\ [][PureNext]_vars

(***************************************************************************)
(* Properties.                                                             *)
(***************************************************************************)
HasBit(x, b) == (x \div b) % 2 = 1

TypeBits == {BSDF_REFLECTION, BSDF_TRANSMISSION, BSDF_DIFFUSE, BSDF_GLOSSY, BSDF_SPECULAR}

\* C9: matches_flags(F) of a term of type T is true exactly when every bit
\* of T is set in F (a subset test, not an any-bit-overlaps test).
C9_MatchesIsSubset ==
    call.op = "matches_flags" =>
        LET T == call.args[1]
            F == call.args[2]
        IN call.result <=> (\A b \in TypeBits : HasBit(T, b) => HasBit(F, b))

\* A term with two type bits was tested against a mask holding only one of
\* them, and did not match.
C9_Witness ==
    /\ call.op = "matches_flags"
    /\ call.args[1] = BitOr(BSDF_REFLECTION, BSDF_SPECULAR)
    /\ call.args[2] = BSDF_SPECULAR
    /\ call.result = FALSE

RECURSIVE SeqSumF(_, _, _, _)
SeqSumF(bxdfs, keep(_), a, b) ==
    IF bxdfs = <<>> THEN VZero
    ELSE LET n == Len(bxdfs)
             rest == SeqSumF(SubSeq(bxdfs, 1, n - 1), keep, a, b)
         IN IF keep(bxdfs[n]) THEN VAdd(rest, bxdf_f(bxdfs[n], a, b)) ELSE rest

\* C10: BSDF::f leaves every TRANSMISSION-flagged term out of the sum when
\* wo and wi are on the same side of the surface, and every
\* REFLECTION-flagged term when they are on opposite sides; the sum is that
\* of the remaining terms whose type is within the requested flags.
C10_HemisphereExclusion ==
    call.op = "BSDF_f" =>
        LET bxdfs == call.args[1]
            wo == call.args[2]
            wi == call.args[3]
            flags == call.args[4]
            side == RMul(wo[3], wi[3])
            sel == call.result.terms
            excluded == IF RGt(side, R(0)) THEN BSDF_TRANSMISSION
                        ELSE IF RLt(side, R(0)) THEN BSDF_REFLECTION
                        ELSE 0
            Keep(t) == /\ \A b \in TypeBits : HasBit(bxdf_type(t), b) => HasBit(flags, b)
                       /\ (excluded # 0 => ~HasBit(bxdf_type(t), excluded))
        IN /\ excluded # 0 =>
                \A i \in 1..Len(sel) : ~HasBit(bxdf_type(bxdfs[sel[i]]), excluded)
           /\ excluded # 0 => call.result.f = SeqSumF(bxdfs, Keep, wi, wo)

\* A glass-like list together with a diffuse term, evaluated with all flags
\* for two directions on the same side: only the reflection terms are summed.
C10_Witness ==
    /\ call.op = "BSDF_f"
    /\ call.args[1] = <<GlassTransTerm, Lambertian(White)>>
    /\ call.args[4] = BSDF_ALL
    /\ RGt(RMul(call.args[2][3], call.args[3][3]), R(0))
    /\ call.result.terms = <<2>>
    /\ ~VIsZero(call.result.f)

(***************************************************************************)
(* Properties of the path tracer.                                          *)
(***************************************************************************)
InPathBounce == ppc \in {"direct", "sample", "roulette", "depthcheck", "trace"}

\* C1: path_bounce is never invoked with a bounce counter greater than the
\* configured depth limit, whatever the limit is.
C1_BounceWithinDepth == InPathBounce => bounce <= pdepth

\* C5: for every bounce <= 3 the roulette step neither terminates the path nor
\* changes the throughput, and the throughput handed to the next bounce is
\* throughput (*) f * |dot(wi, N)| / pdf.
C5_RouletteOnlyAfterThree ==
    [][/\ (ppc = "roulette" /\ bounce <= 3)
            => (ppc' = "depthcheck" /\ throughput' = throughput)
       /\ (ppc = "trace" /\ ppc' = "direct" /\ bounce <= 3)
            => tp_in' = VDivS(VScale(VMul(tp_in, samp.f), RAbs(samp.wi[3])), samp.pdf)
      ]_vars

\* A fourth vertex (bounce 3) of a path through a red surface has passed the
\* roulette step.
C5_Witness ==
    /\ ppc = "depthcheck"
    /\ bounce = 3
    /\ throughput = Red
    /\ pdepth > 3

\* C6: with no lights in the scene sample_one_light returns zero radiance and
\* does not panic, and the path integration meets no fault.
C6_NoLightsNoFault ==
    nlights = 0 =>
        /\ ppc # "panicked"
        /\ pfault = "none"
        /\ direct = VZero

\* A path of three vertices in a scene without lights has returned.
C6_Witness ==
    /\ nlights = 0
    /\ ppc = "done"
    /\ bounce = 2
    /\ samp # NoSample

\* C21: for bounce > 3 the continuation probability is
\* min(0.5, 0.2126 R + 0.7152 G + 0.0722 B) of the throughput; the path ends,
\* returning the radiance accumulated so far, when the draw exceeds it, and
\* otherwise the throughput carried to the next bounce is the updated
\* throughput divided by that probability.
C21_RouletteContinuation ==
    [][/\ (ppc = "roulette" /\ bounce > 3) =>
            LET lum == RAdd(RAdd(RMul(throughput[1], Rat(2126, 10000)),
                                 RMul(throughput[2], Rat(7152, 10000))),
                            RMul(throughput[3], Rat(722, 10000)))
                q == IF RLt(lum, Rat(1, 2)) THEN lum ELSE Rat(1, 2)
            IN /\ roulette_draw' \in Draws
               /\ RGt(roulette_draw', q) => (ppc' = "done" /\ l' = l)
               /\ ~RGt(roulette_draw', q) =>
                    /\ ppc' = "depthcheck"
                    /\ throughput' = [i \in 1..3 |-> RDiv(throughput[i], q)]
       /\ (ppc = "trace" /\ ppc' = "direct") => tp_in' = throughput
      ]_vars

\* A path through white mirrors has survived the roulette of its fifth
\* vertex with a draw of 1/4 and its throughput doubled.
C21_Witness ==
    /\ ppc = "depthcheck"
    /\ bounce = 4
    /\ roulette_draw = Rat(1, 4)
    /\ tp_in = VOne
    /\ throughput = Vec(R(2), R(2), R(2))

RECURSIVE SeqSumPdf(_, _, _, _)
SeqSumPdf(bxdfs, keep(_), wo, wi) ==
    IF bxdfs = <<>> THEN R(0)
    ELSE LET n == Len(bxdfs)
             rest == SeqSumPdf(SubSeq(bxdfs, 1, n - 1), keep, wo, wi)
         IN IF keep(bxdfs[n]) THEN RAdd(rest, bxdf_pdf(bxdfs[n], wo, wi)) ELSE rest

\* C23: BSDF::sample_f returns the type of one of the terms whose type is
\* within the flags; when that term is not specular the pdf is the mean of
\* pdf(wo, wi) over all the terms within the flags and the value is the sum
\* of f(wo, wi) over the terms within the flags less the hemisphere bit
\* (TRANSMISSION when wo and wi are on the same side, REFLECTION otherwise);
\* when no term is within the flags the result is zero, zero, 0.0, None.
C23_SampleFMeanAndSum ==
    call.op = "BSDF_sample_f" =>
        LET bxdfs == call.args[1]
            wo == call.args[2]
            flags == call.args[5]
            res == call.result
            Match(t) == \A b \in TypeBits : HasBit(bxdf_type(t), b) => HasBit(flags, b)
            k == Cardinality({i \in 1..Len(bxdfs) : Match(bxdfs[i])})
            excluded == IF RGt(RMul(wo[3], res.wi[3]), R(0)) THEN BSDF_TRANSMISSION
                        ELSE BSDF_REFLECTION
            Keep(t) == Match(t) /\ ~HasBit(bxdf_type(t), excluded)
        IN /\ k = 0 => res = [f |-> VZero, wi |-> VZero, pdf |-> R(0), flags |-> NoType]
           /\ k > 0 =>
                /\ res.flags.some
                /\ \E i \in 1..Len(bxdfs) :
                        Match(bxdfs[i]) /\ res.flags.bits = bxdf_type(bxdfs[i])
           /\ (k > 0 /\ ~HasBit(res.flags.bits, BSDF_SPECULAR)) =>
                /\ res.pdf = RDiv(SeqSumPdf(bxdfs, Match, wo, res.wi), R(k))
                /\ res.f = SeqSumF(bxdfs, Keep, wo, res.wi)

\* A diffuse term was chosen out of a diffuse and a mirror term: the pdf is
\* half the diffuse term's own and the value is the diffuse term's alone.
C23_Witness ==
    /\ call.op = "BSDF_sample_f"
    /\ call.args[1] = <<Lambertian(White), MirrorTerm>>
    /\ call.args[2] = Vec(Rat(3, 5), R(0), Rat(4, 5))
    /\ call.args[4] = <<Rat(3, 5), R(0)>>
    /\ call.args[5] = BSDF_ALL
    /\ call.result.flags = SomeType(BitOr(BSDF_DIFFUSE, BSDF_REFLECTION))
    /\ call.result.pdf = RDiv(RMul(Rat(4, 5), FRAC_1_PI), R(2))
    /\ call.result.f = VScale(White, FRAC_1_PI)

\* C29: when the chosen term is specular and k >= 2 terms are within the
\* flags, the returned pdf is the pdf that term sampled divided by k; when
\* exactly one term is within the flags the pdf is that term's own.
C29_SpecularPdfShared ==
    call.op = "BSDF_sample_f" =>
        LET bxdfs == call.args[1]
            wo == call.args[2]
            d == call.args[4]
            flags == call.args[5]
            res == call.result
            Match(t) == \A b \in TypeBits : HasBit(bxdf_type(t), b) => HasBit(flags, b)
            within == SelectSeq(bxdfs, Match)
            k == Len(within)
            own == bxdf_sample_f(within[call.args[3]], wo,
                                 cosine_sample_hemisphere(d[1], d[2]))
        IN /\ (k >= 2 /\ HasBit(res.flags.bits, BSDF_SPECULAR)) =>
                res.pdf = RDiv(own.pdf, R(k))
           /\ k = 1 => res.pdf = own.pdf

\* The reflection term of glass (two specular terms) was chosen: pdf 1/2.
C29_Witness ==
    /\ call.op = "BSDF_sample_f"
    /\ call.args[1] = <<GlassReflTerm, GlassTransTerm>>
    /\ call.args[5] = BSDF_ALL
    /\ call.result.flags = SomeType(BitOr(BSDF_REFLECTION, BSDF_SPECULAR))
    /\ call.result.pdf = Rat(1, 2)

\* C22: when the BSDF sample has zero contribution or zero pdf, path_bounce
\* returns exactly the direct-light term of the current vertex,
\* throughput (*) sample_one_light, and traces no continuation ray; when the
\* continuation ray escapes the scene nothing further is added.
C22_PathEndsWithDirectTerm ==
    [][/\ (ppc = "sample" /\ (samp'.f = VZero \/ samp'.pdf = R(0))) =>
            /\ ppc' = "done"
            /\ l' = VMul(tp_in, direct)
            /\ <<bounce, isect, ray>>' = <<bounce, isect, ray>>
       /\ (ppc = "trace" /\ bounce' = bounce) =>
            /\ ppc' = "done"
            /\ l' = l
            /\ l' = VMul(tp_in, direct)
      ]_vars

\* At the second vertex, a lit diffuse surface, the sampled direction lay in
\* the plane of the surface (pdf 0): the path returned the direct light.
C22_Witness ==
    /\ ppc = "done"
    /\ bounce = 1
    /\ samp.pdf = R(0)
    /\ samp.flags.some
    /\ ~VIsZero(direct)
    /\ l = VMul(tp_in, direct)

(***************************************************************************)
(* Properties of the renderer and the Whitted integrator.                  *)
(***************************************************************************)
SpecularStages == {"reflect", "reflect_wait", "transmit", "transmit_wait"}

\* C4: the specular contributions are added only when ray.depth < D; a hit at
\* ray.depth >= D still gets its direct lighting, and nothing else; every ray
\* the recursion hands to render has depth <= D; with D = 0 and no lights the
\* result is zero.
C4_WhittedDepthLimit ==
    /\ \A i \in 1..Len(frames) :
        /\ (frames[i].stage \in SpecularStages \/ frames[i].spawned > 0)
              => frames[i].depth < wdepth
        /\ (frames[i].hit /\ frames[i].stage = "return" /\ frames[i].depth >= wdepth)
              => (frames[i].lit /\ frames[i].l = frames[i].direct)
        /\ i > 1 => (frames[i].depth <= wdepth /\ frames[i].depth = frames[i - 1].depth + 1)
    /\ (wpc = "done" /\ wdepth = 0 /\ wnlights = 0) => wresult = VZero

\* Two specular bounces deep with D = 2, a lit diffuse surface has been shaded:
\* the ray at the limit got its direct lighting and returns.
C4_Witness ==
    /\ wdepth = 2
    /\ Len(frames) = 3
    /\ Top(frames).depth = wdepth
    /\ Top(frames).stage = "return"
    /\ Top(frames).hit
    /\ ~VIsZero(Top(frames).l)

\* C7: when scene.trace finds nothing render returns zero without lighting and
\* without a further ray; lighting and recursion happen only on a hit.
C7_MissReturnsZero ==
    /\ \A i \in 1..Len(frames) :
        /\ (~frames[i].hit /\ frames[i].stage # "trace")
              => /\ frames[i].stage = "return"
                 /\ frames[i].l = VZero
                 /\ ~frames[i].lit
                 /\ frames[i].spawned = 0
        /\ (frames[i].lit \/ frames[i].spawned > 0) => frames[i].hit
    /\ (wpc = "done" /\ ~frames[1].hit) => wresult = VZero

\* The camera ray of a lit scene with a positive depth limit missed everything
\* and render has returned.
C7_Witness ==
    /\ wpc = "done"
    /\ ~frames[1].hit
    /\ wnlights > 0
    /\ wdepth > 0

(***************************************************************************)
(* Properties of render.                                                   *)
(***************************************************************************)
SpawningDone == cpc \in {"recv", "reconstruct", "done", "panicked"}

Owners(col) == {w \in DOMAIN workers : workers[w].xstart <= col /\ col < workers[w].xend}

\* C2: once the workers are spawned their column ranges are contiguous and
\* every column of 0..width-1 belongs to exactly one of them.
C2_ColumnsPartitioned ==
    SpawningDone =>
        /\ \A col \in 0..(width - 1) : Cardinality(Owners(col)) = 1
        /\ \A w \in DOMAIN workers :
               w > 0 => workers[w].xstart = workers[w - 1].xend

AllWorkersFinished ==
    SpawningDone /\ \A w \in DOMAIN workers : workers[w].state \in {"finished", "panicked"}

Drained == cpc \in {"reconstruct", "done", "panicked"}

\* C3: the coordinator holds no sender while it receives, a worker that has
\* ended holds none either, and once every worker has ended the receive loop
\* ends and render goes on to the reconstruction.
C3_DrainCompletes ==
    /\ [](cpc = "recv" => ~coord_tx)
    /\ [](\A w \in DOMAIN workers :
              workers[w].state \in {"finished", "panicked"} => ~workers[w].tx)
    /\ (AllWorkersFinished ~> Drained)

\* Two workers have sent all their pixels and ended, and the coordinator has
\* left the receive loop with every pixel of the image.
C3_Witness ==
    /\ nthreads = 2
    /\ cpc = "reconstruct"
    /\ \A w \in DOMAIN workers : workers[w].state = "finished"
    /\ pixel_map = AllPixels
    /\ pixel_map # {}

\* The pixels of the column range of worker w.
PixelsOf(w) == (workers[w].xstart..(workers[w].xend - 1)) \X (0..(height - 1))

\* C15: render returns a pixel buffer only in runs where a colour was
\* received for every coordinate (x, y) with 0 <= x < width and
\* 0 <= y < height; when a worker ended abnormally before sending every
\* pixel of its range, render does not return.
C15_NoPartialImage ==
    /\ cpc = "done" => AllPixels \subseteq pixel_map
    /\ (\E w \in DOMAIN workers :
            /\ workers[w].state = "panicked"
            /\ ~(PixelsOf(w) \subseteq (pixel_map \cup {chan[i] : i \in 1..Len(chan)})))
        => cpc # "done"

\* A worker panicked with pixels of its range unsent; the others finished,
\* the receive loop ended, and render panicked in the reconstruction.
C15_Witness ==
    /\ cpc = "panicked"
    /\ \E w \in DOMAIN workers :
        /\ workers[w].state = "panicked"
        /\ ~(PixelsOf(w) \subseteq pixel_map)
    /\ pixel_map # {}
    /\ \A col \in 0..(width - 1) : Cardinality(Owners(col)) = 1

\* C16: no worker step modifies the shared Scene, Camera or Renderer, and
\* the random-generator state of a worker is read and advanced only by a
\* step of that worker: never by another worker, never by the coordinator.
C16_WorkersShareNothingMutable ==
    [][/\ shared' = shared
       /\ \A w \in DOMAIN rngs :
            rngs'[w] # rngs[w] =>
                /\ workers'[w] # workers[w]
                /\ \A v \in DOMAIN workers \ {w} : workers'[v] = workers[v]
                /\ <<cpc, nspawned, coord_tx, pixel_map>>' = <<cpc, nspawned, coord_tx, pixel_map>>]_vars

\* Two workers have each rendered pixels with two samples per pixel, each
\* drawing from its own generators, and the shared data is as it was built.
C16_Witness ==
    /\ nthreads = 2
    /\ samples_per_pixel = 2
    /\ \A w \in DOMAIN rngs : rngs[w].rng > 0 /\ rngs[w].thread_rng > 0
    /\ rngs[0] # rngs[1]
    /\ shared = Shared

(***************************************************************************)
(* Properties of parse_scene.                                              *)
(***************************************************************************)
\* C8: parse_scene never panics: whatever key is missing, of the wrong type
\* or of an unrecognised value, it ends in Ok or in an Err with a typed error.
C8_ParseNeverPanics ==
    /\ outcome.kind # "panic"
    /\ outcome.kind = "Err" => outcome.error \in Error

(***************************************************************************)
(* Properties of the direct lighting.                                      *)
(***************************************************************************)
\* C11: the contribution of a light in sample_light is
\* f (*) li * max(0, dot(N, wi)) when the light is unoccluded and f and li
\* are non-zero, and zero otherwise; no component of it is negative.
C11_DirectLightClamped ==
    call.op = "sample_light" =>
        LET ls == call.args[1]
            f == call.result.f
            v == call.result.value
        IN /\ v = IF ~VIsZero(ls.li) /\ ~VIsZero(f) /\ ~ls.shadow
                  THEN VScale(VMul(f, ls.li), RMax(R(0), ls.wi[3]))
                  ELSE VZero
           /\ \A i \in 1..3 : ~RLt(v[i], R(0))

\* The distances of the shading points: d * d is the squared length of v.
Distance(v) == CHOOSE d \in 0..13 : d * d = VDot(v, v)[1] \div VDot(v, v)[2]

C12_RayDepthIncrements ==
    [][bounce' = bounce + 1 => ray'.depth = ray.depth + 1]_vars

\* C13: for every unit wo, the wi returned by SpecularReflection::sample_f,
\* by SpecularTransmission::sample_f (when it samples a direction at all) and
\* by the default cosine-hemisphere sample_f has length 1.
C13_SampledDirectionIsUnit ==
    (call.op = "sample_f" /\ ~(VIsZero(call.result.f) /\ REq(call.result.pdf, R(0)))) =>
        REq(VDot(call.result.wi, call.result.wi), R(1))

(***************************************************************************)
(* Properties of the specular terms.                                       *)
(***************************************************************************)
\* C14: SpecularTransmission::sample_f returns a zero contribution, a zero
\* direction and pdf 0 whenever (etai/etat)^2 * sin^2(theta_o) > 1, with
\* etai and etat swapped when cos(theta_o) <= 0; in every other case it
\* returns pdf 1.
C14_TotalInternalReflection ==
    (call.op = "sample_f" /\ call.args[1].kind = "SpecularTransmission") =>
        LET t == call.args[1]
            wo == call.args[2]
            inside == RLe(wo[3], R(0))
            ratio == IF inside THEN RDiv(t.etat, t.etai) ELSE RDiv(t.etai, t.etat)
            sin2 == RSub(R(1), RMul(wo[3], wo[3]))
        IN IF RGt(RMul(RMul(ratio, ratio), sin2), R(1))
           THEN /\ call.result.f = VZero
                /\ call.result.wi = VZero
                /\ call.result.pdf = R(0)
           ELSE call.result.pdf = R(1)

\* Glass left from the inside beyond the critical angle: nothing is
\* transmitted.
C14_Witness ==
    /\ call.op = "sample_f"
    /\ call.args[1] = GlassTransTerm
    /\ RLt(call.args[2][3], R(0))
    /\ call.result.pdf = R(0)
    /\ call.result.wi = VZero

(***************************************************************************)
(* Properties of coordinate_system.                                        *)
(***************************************************************************)
UnitX == Vec(R(1), R(0), R(0))
UnitY == Vec(R(0), R(1), R(0))
UnitZ == Vec(R(0), R(0), R(1))

\* C18: coordinate_system(v) at v = +Y returns (t, b) with t = -X and
\* b = -Z.
C18_UnitYFrame ==
    (call.op = "coordinate_system" /\ call.args[1] = UnitY) =>
        /\ call.result.t = VScale(UnitX, R(-1))
        /\ call.result.b = VScale(UnitZ, R(-1))

\* C18, as the code has it: coordinate_system(v) at v = +Y returns (t, b)
\* with t = -Z and b = -X.
C18_UnitYFrameAmended ==
    (call.op = "coordinate_system" /\ call.args[1] = UnitY) =>
        /\ call.result.t = VScale(UnitZ, R(-1))
        /\ call.result.b = VScale(UnitX, R(-1))

\* coordinate_system was applied to +Y.
C18_Witness ==
    /\ call.op = "coordinate_system"
    /\ call.args[1] = UnitY
    /\ call.result.t[3] = R(-1)

\* C19: for each of the six axis-aligned unit vectors v, coordinate_system(v)
\* returns (t, b) such that t, b and v are pairwise orthogonal, each of unit
\* length, and right-handed (t x b = v); no component is non-finite and
\* neither vector is zero.
C19_AxisFramesOrthonormal ==
    (call.op = "coordinate_system" /\ call.args[1] \in Axes) =>
        LET v == call.args[1]
            t == call.result.t
            b == call.result.b
        IN /\ \A i \in 1..3 : t[i][2] # 0 /\ b[i][2] # 0
           /\ ~VIsZero(t) /\ ~VIsZero(b)
           /\ REq(VDot(t, b), R(0)) /\ REq(VDot(t, v), R(0)) /\ REq(VDot(b, v), R(0))
           /\ REq(VDot(t, t), R(1)) /\ REq(VDot(b, b), R(1)) /\ REq(VDot(v, v), R(1))
           /\ \A i \in 1..3 :
                REq(RSub(RMul(t[(i % 3) + 1], b[((i + 1) % 3) + 1]),
                         RMul(t[((i + 1) % 3) + 1], b[(i % 3) + 1])), v[i])

\* coordinate_system was applied to -Z, where both x and y are zero.
C19_Witness ==
    /\ call.op = "coordinate_system"
    /\ call.args[1] = VScale(UnitZ, R(-1))
    /\ call.result.t = VScale(UnitY, R(-1))

(***************************************************************************)
(* Properties of the Fresnel reflectance.                                  *)
(***************************************************************************)
\* C20: FresnelDielectric::evaluate at normal incidence (cosi = 1) with
\* etai = 1 and etat = 1.5 returns ((etat - etai) / (etat + etai))^2 = 0.04
\* in every channel.
C20_NormalIncidenceReflectance ==
    (/\ call.op = "FresnelDielectric_evaluate"
     /\ call.args[1] = FresnelDielectric(R(1), Rat(3, 2))
     /\ call.args[2] = R(1)) =>
        /\ \A i \in 1..3 : call.result[i] = Rat(4, 100)
        /\ \A i \in 1..3 :
              call.result[i] =
                  RMul(RDiv(RSub(Rat(3, 2), R(1)), RAdd(Rat(3, 2), R(1))),
                       RDiv(RSub(Rat(3, 2), R(1)), RAdd(Rat(3, 2), R(1))))

\* The reflectance of the air-to-glass interface was evaluated head-on.
C20_Witness ==
    /\ call.op = "FresnelDielectric_evaluate"
    /\ call.args[1].etai = R(1)
    /\ call.args[1].etat = Rat(3, 2)
    /\ call.args[2] = R(1)
    /\ call.result = VFrom(Rat(1, 25))

(***************************************************************************)
(* Properties of Scene::trace, PointLight::shadow and Scalar::clamp.       *)
(***************************************************************************)
\* C24: Scene::trace returns the candidate with the smallest hit parameter
\* among those strictly above the threshold 0.00000001, the first of them in
\* candidate order when several share that parameter, and None when there is
\* no candidate or none has a hit above the threshold.
C24_NearestAboveThreshold ==
    call.op = "trace" =>
        LET nodes == call.args[1]
            res == call.result
            above == {i \in 1..Len(nodes) :
                        nodes[i].some /\ RGt(nodes[i].toi, Rat(1, 100000000))}
        IN /\ above = {} => ~res.some
           /\ above # {} =>
                /\ res.some
                /\ res.node \in above
                /\ res.toi = nodes[res.node].toi
                /\ \A j \in above : RLe(res.toi, nodes[j].toi)
                /\ \A j \in above : nodes[j].toi = res.toi => res.node <= j

\* A hit at the threshold in front of two hits at the same parameter: the
\* first of the two is returned.
C24_Witness ==
    /\ call.op = "trace"
    /\ call.args[1] = <<Cast(TOI_EPSILON), Cast(R(1)), Cast(R(1))>>
    /\ call.result = [some |-> TRUE, node |-> 2, toi |-> R(1)]

\* C25: PointLight::shadow reports occlusion exactly when a candidate of the
\* ray toward the light has a hit parameter that is positive and strictly
\* smaller than the distance to the light.
C25_ShadowStrictlyNearer ==
    call.op = "shadow" =>
        LET light == call.args[1]
            p == call.args[2]
            nodes == call.args[3]
            dist == R(Distance(VSub(light.position, p)))
        IN call.result <=>
            \E i \in 1..Len(nodes) :
                nodes[i].some /\ RGt(nodes[i].toi, R(0)) /\ RLt(nodes[i].toi, dist)

\* The light is at distance 2; a hit at 2 and a hit at 1: occluded by the
\* second.
C25_Witness ==
    /\ call.op = "shadow"
    /\ call.args[2] = Vec(R(2), R(2), R(0))
    /\ call.args[3] = <<Cast(R(2)), Cast(R(1))>>
    /\ call.result = TRUE

\* C30 as stated: with min <= max clamp returns min below min, max above
\* max and the value otherwise, the result lies in [min, max] and clamping
\* it again changes nothing; with min > max the assertion fails.
C30_ClampInRange ==
    call.op = "clamp" =>
        LET x == call.args[1]
            min == call.args[2]
            max == call.args[3]
            res == call.result
        IN /\ RLe(min, max) =>
                /\ ~res.panicked
                /\ res.value = (IF RLt(x, min) THEN min ELSE IF RGt(x, max) THEN max ELSE x)
                /\ RLe(min, res.value) /\ RLe(res.value, max)
                /\ Scalar_clamp(res.value, min, max).value = res.value
           /\ RGt(min, max) => res.panicked

\* C30, amended: the result lies in [min, max] when the value is not NaN; a
\* NaN value is neither below min nor above max and is returned as it is.
C30_ClampInRangeUnlessNaN ==
    call.op = "clamp" =>
        LET x == call.args[1]
            min == call.args[2]
            max == call.args[3]
            res == call.result
        IN /\ RLe(min, max) =>
                /\ ~res.panicked
                /\ res.value = (IF RLt(x, min) THEN min ELSE IF RGt(x, max) THEN max ELSE x)
                /\ ~RIsNaN(x) => (RLe(min, res.value) /\ RLe(res.value, max))
                /\ RIsNaN(x) => RIsNaN(res.value)
                /\ Scalar_clamp(res.value, min, max).value = res.value
           /\ RGt(min, max) => res.panicked

\* 2.0 clamped to [-1, 1], as in test_clamp_max_f64.
C30_Witness ==
    /\ call.op = "clamp"
    /\ call.args = <<R(2), R(-1), R(1)>>
    /\ call.result = [panicked |-> FALSE, value |-> R(1)]

(***************************************************************************)
(* Properties of the pixels the coordinator receives.                      *)
(***************************************************************************)
NoWorkerFailed == \A w \in DOMAIN workers : workers[w].state # "panicked"

\* C26: in a run where no worker fails, every coordinate sent is a pixel of
\* the image and is sent once (so no pixel_map.insert overwrites an entry),
\* and when the receive loop has ended the keys of pixel_map are exactly the
\* pixels (x, y) with 0 <= x < width and 0 <= y < height, whatever the
\* order of arrival, so the reconstruction finds every coordinate.
C26_EveryPixelOnce ==
    NoWorkerFailed =>
        /\ \A i \in 1..Len(chan) :
               /\ chan[i] \in AllPixels
               /\ chan[i] \notin pixel_map
               /\ \A j \in 1..Len(chan) : chan[j] = chan[i] => j = i
        /\ pixel_map \subseteq AllPixels
        /\ Drained => pixel_map = AllPixels
        /\ cpc # "panicked"

(***************************************************************************)
(* Properties of the roulette and of the sampled scattering type.          *)
(***************************************************************************)
\* C27: whenever the roulette is played (bounce > 3) and the path goes on,
\* the continuation probability min(0.5, luminance(throughput)) by which the
\* throughput is divided is strictly positive.
C27_SurvivorDividesByPositive ==
    [][(ppc = "roulette" /\ bounce > 3 /\ ppc' = "depthcheck") =>
          RGt(RMin(Rat(1, 2),
                   RAdd(RAdd(RMul(throughput[1], Rat(2126, 10000)),
                             RMul(throughput[2], Rat(7152, 10000))),
                        RMul(throughput[3], Rat(722, 10000)))),
              R(0))]_vars

\* C28: path_bounce does not unwrap an absent scattering type: when
\* BSDF::sample_f returns no type its value and pdf are zero and path_bounce
\* returns l at the zero test, before flags.unwrap().
C28_NoUnwrapOfNone ==
    [][ppc = "sample" =>
          /\ pfault' # "unwrap on None"
          /\ ~samp'.flags.some =>
                /\ VIsZero(samp'.f) /\ samp'.pdf = R(0)
                /\ ppc' = "done" /\ l' = l]_vars

\* The second vertex of a path lies on a surface whose BSDF holds no term:
\* the path ended there without a fault.
C28_Witness ==
    /\ ppc = "done" /\ pfault = "none"
    /\ bounce = 1
    /\ isect.bxdfs = <<>>
    /\ ~samp.flags.some

====
